---- MODULE Spec2Model ----
(***************************************************************************)
(* ChessAnalyser: the engine pool (internal/engine, EnginePool), the UCI   *)
(* protocol client (StockfishEngine) and the analysis service that drives  *)
(* them (internal/service, AnalysisService).                               *)
(*                                                                         *)
(* One pool is constructed by NewEnginePool(MaxEngines), engine by engine; *)
(* then NumCallers goroutines issue AnalyzePosition / AnalyzeGame requests *)
(* and one goroutine may call AnalysisService.Close.                       *)
(***************************************************************************)
EXTENDS Integers, Sequences, FiniteSets, TLC

\* ---- bounds ------------------------------------------------------------
MaxEngines == 2          \* maxEngines handed to NewEnginePool
NumCallers == 4          \* concurrent request goroutines
MaxMoves   == 2          \* most moves one AnalyzeGame request analyses
maxCacheSize == 1        \* AnalysisService.maxCacheSize (1000), scaled down
MaxCloseCalls == 2       \* direct StockfishEngine.Close calls per client

\* ---- program constants -------------------------------------------------
NumOptions == 4          \* setoption commands of configureEngine

EngineIds == 1..MaxEngines
Callers   == 1..NumCallers
NoEngine  == 0           \* a nil *StockfishEngine / "holds nothing"

VARIABLES
    \* NewEnginePool's progress
    phase,        \* "constructing" | "running" | "failed"
    cur,          \* loop index i of NewEnginePool (1-based)
    ipc,          \* position inside NewStockfishEngine / initialize
    expected,     \* argument of the waitForResponse in progress
    optIdx,       \* commands of configureEngine already sent
    hsTimer,      \* time.After(10s) of the waitForResponse has fired
    \* EnginePool
    Engines,      \* pool.Engines
    Available,    \* buffer of the channel pool.Available
    chanClosed,   \* close(p.Available) has run
    \* StockfishEngine, per engine
    isReady,
    isAnalyzing,
    closed,       \* Close has run: pipes closed, process killed
    eof,          \* the scanner has returned false (sticky)
    mu,           \* holder of e.mu: 0 free, else the caller inside
    hslog,        \* commands written / awaited lines read by initialize
    initFailed,   \* initialize returned an error
    \* request goroutines
    pc,
    held,         \* the client obtained from GetEngine
    movesLeft,    \* iterations of the move loop still to run
    ctxDone,      \* the request's context is cancelled
    timerFired,   \* time.After(30s) of parseAnalysisOutput has fired
    res,          \* outcome of the call's last engine AnalyzePosition
    \* the goroutine calling AnalysisService.Close
    cpc,          \* "idle" | "closing" | "done"
    cidx,         \* index into Engines of the engine to close next
    \* AnalysisService
    cache,        \* s.cache: cache key -> *GameAnalysis
    rwReaders,    \* goroutines holding s.cacheMutex.RLock
    rwWriter,     \* goroutine holding s.cacheMutex.Lock, 0 when none
    \* service requests, per request goroutine
    spc,          \* position inside AnalyzeGame / AnalysisService.AnalyzePosition
    req,          \* the *AnalysisRequest of the AnalyzeGame call
    analysis,     \* analysis.Moves of performGameAnalysis (MoveNumbers)
    outcomes,     \* per engine-level call of the request: did it succeed
    acquired,     \* GetEngine calls the request has completed
    out,          \* what the request returns
    clpc,         \* the goroutine calling ClearCache
    stpc,         \* the goroutine calling GetEngineStatus
    \* direct use of a client
    nClose,       \* StockfishEngine.Close calls made directly on the client
    \* one call of a function taken on its own
    fpc,          \* position inside the call, "none" when there is none
    farg,         \* its arguments and the input it reads
    fval          \* its local variables and its result

ctorVars   == <<phase, cur, ipc, expected, optIdx, hsTimer>>
poolVars   == <<Engines, Available, chanClosed>>
engVars    == <<isReady, isAnalyzing, closed, eof, mu, hslog, initFailed>>
callerVars == <<pc, held, movesLeft, ctxDone, timerFired, res>>
closerVars == <<cpc, cidx>>
svcVars    == <<cache, rwReaders, rwWriter, spc, req, analysis, outcomes,
                acquired, out, clpc, stpc>>
fnVars     == <<fpc, farg, fval>>
auxVars    == <<svcVars, nClose, fnVars>>
vars == <<ctorVars, poolVars, engVars, callerVars, closerVars, auxVars>>

Range(s) == {s[i] : i \in 1..Len(s)}

\* ---- channel semantics of pool.Available -------------------------------
\* A receive proceeds when the buffer holds a value or the channel is closed.
CanRecv_NoBlock(q, isClosed) == TRUE
CanRecv(q, isClosed) == Len(q) > 0 \/ isClosed

\* The value a receive yields: the oldest buffered one, nil when drained.
RecvValue(q) == IF Len(q) > 0 THEN Head(q) ELSE NoEngine

\* The buffer after a receive.
RecvRest_Peek(q) == q
RecvRest(q) == IF Len(q) > 0 THEN Tail(q) ELSE q

\* The buffer after a send.
SendChan(q, e) == Append(q, e)

\* defer s.enginePool.ReturnEngine(stockfishEngine): runs on every outcome r.
DeferredReturn_OnSuccessOnly(q, e, r) == IF r = "ok" THEN SendChan(q, e) ELSE q
DeferredReturn(q, e, r) == SendChan(q, e)

\* ---- the handshake ------------------------------------------------------
HsLines == {"uciok", "readyok", "other"}

\* strings.Contains(line, expected), on line kinds.
ResponseMatches_Any(line, exp) == TRUE
ResponseMatches(line, exp) == line = exp

RECURSIVE Repeat(_, _)
Repeat(x, n) == IF n = 0 THEN <<>> ELSE <<x>> \o Repeat(x, n - 1)

\* What initialize has written and read when it returns nil.
FullHandshake ==
    <<"uci", "uciok">> \o Repeat("setoption", NumOptions) \o <<"isready", "readyok">>

\* ---- requests and the analysis cache -----------------------------------
\* Transcripts: one that ValidatePGN rejects, one that parses to MaxMoves
\* moves.
Transcripts == {"bad", "g"}
GameLength(pgn) == IF pgn = "g" THEN MaxMoves ELSE 0
ValidatePGN_AcceptAll(pgn) == TRUE
ValidatePGN(pgn) == pgn # "bad"

\* models.AnalysisRequest: PGN, Settings.Depth, Settings.TimeLimit, MaxMoves.
Depths == {10}
TimeLimits == {0}
Requests == [pgn : Transcripts, depth : Depths, timeLimit : TimeLimits,
             maxMoves : 0..(MaxMoves - 1)]
NoRequest == [pgn |-> "none", depth |-> 0, timeLimit |-> 0, maxMoves |-> 0]

\* fmt.Sprintf("%s_%d_%d_%d", PGN, Depth, TimeLimit, MaxMoves)
generateCacheKey(r) == <<r.pgn, r.depth, r.timeLimit, r.maxMoves>>

\* movesToAnalyze of performGameAnalysis.
MovesLimit_Uncapped(n, maxMoves) == IF maxMoves > 0 THEN maxMoves ELSE n
MovesLimit(n, maxMoves) == IF maxMoves > 0 /\ maxMoves < n THEN maxMoves ELSE n
movesToAnalyze(r) == MovesLimit(GameLength(r.pgn), r.maxMoves)

\* A nil *GameAnalysis, and the (result, error) pair a request returns.
NoResult == [pgn |-> "nil", moves |-> <<>>]
Return(v, e) == [val |-> v, err |-> e]
NoReturn == Return(NoResult, "none")

\* s.cache[key]: the zero value (nil) when the key is absent.
getFromCache_Miss(m, k) == NoResult
getFromCache(m, k) == IF k \in DOMAIN m THEN m[k] ELSE NoResult

EmptyCache == [k \in {} |-> NoResult]
CacheDelete(m, k) == [x \in (DOMAIN m) \ {k} |-> m[x]]
CachePut(m, k, v) == [x \in (DOMAIN m) \cup {k} |-> IF x = k THEN v ELSE m[x]]

\* addToCache between Lock and Unlock: when len(s.cache) >= maxCacheSize the
\* first key of a map iteration (any key) is deleted, then the entry is set.
addToCacheWith(m, k, v, size) ==
    IF Cardinality(DOMAIN m) >= size
      THEN {CachePut(CacheDelete(m, victim), k, v) : victim \in DOMAIN m}
      ELSE {CachePut(m, k, v)}
addToCache_NoEvict(m, k, v) == {CachePut(m, k, v)}
addToCache(m, k, v) == addToCacheWith(m, k, v, maxCacheSize)

\* The *GameAnalysis performGameAnalysis returns.
GameAnalysis(r, moves) == [pgn |-> r.pgn, moves |-> moves]

\* The id under which the ClearCache goroutine holds the lock.
ClearId == NumCallers + 1

\* StockfishEngine.Close's effect on the client: pipes closed, process killed.
ClosedBy_Toggle(cl, e) == [cl EXCEPT ![e] = ~@]
ClosedBy(cl, e) == [cl EXCEPT ![e] = TRUE]

\* EnginePool.Close's effect on the clients: every engine of p.Engines.
ClosedByPool_None(cl, engines) == cl
ClosedByPool(cl, engines) == [x \in EngineIds |-> cl[x] \/ x \in Range(engines)]

\* Everything but the single function call: nothing constructed yet.
InitSystem ==
    /\ phase = "constructing" /\ cur = 1 /\ ipc = "launch"
    /\ expected = "none" /\ optIdx = 0 /\ hsTimer = FALSE
    /\ Engines = <<>> /\ Available = <<>> /\ chanClosed = FALSE
    /\ isReady = [e \in EngineIds |-> FALSE]
    /\ isAnalyzing = [e \in EngineIds |-> FALSE]
    /\ closed = [e \in EngineIds |-> FALSE]
    /\ eof = [e \in EngineIds |-> FALSE]
    /\ mu = [e \in EngineIds |-> 0]
    /\ hslog = [e \in EngineIds |-> <<>>]
    /\ initFailed = [e \in EngineIds |-> FALSE]
    /\ pc = [c \in Callers |-> "idle"]
    /\ held = [c \in Callers |-> NoEngine]
    /\ movesLeft = [c \in Callers |-> 0]
    /\ ctxDone = [c \in Callers |-> FALSE]
    /\ timerFired = [c \in Callers |-> FALSE]
    /\ res = [c \in Callers |-> "none"]
    /\ cpc = "idle" /\ cidx = 1
    /\ cache = EmptyCache /\ rwReaders = {} /\ rwWriter = 0
    /\ spc = [c \in Callers |-> "none"]
    /\ req = [c \in Callers |-> NoRequest]
    /\ analysis = [c \in Callers |-> <<>>]
    /\ outcomes = [c \in Callers |-> <<>>]
    /\ acquired = [c \in Callers |-> 0]
    /\ out = [c \in Callers |-> NoReturn]
    /\ clpc = "idle" /\ stpc = "idle"
    /\ nClose = [e \in EngineIds |-> 0]

Init ==
    /\ InitSystem
    /\ fpc = "none" /\ farg = <<>> /\ fval = <<>>

\* ---- NewEnginePool / NewStockfishEngine / initialize -------------------
\* NewEnginePool's error path: pool.Close() and return nil.
PoolCtorAbort(cl) ==
    /\ closed' = ClosedByPool(cl, Engines)
    /\ chanClosed' = TRUE
    /\ phase' = "failed"
    /\ UNCHANGED <<cur, Engines, Available>>

\* initialize returned an error: engine.Close(), then NewEnginePool aborts.
InitFail ==
    /\ initFailed' = [initFailed EXCEPT ![cur] = TRUE]
    /\ PoolCtorAbort([closed EXCEPT ![cur] = TRUE])
    /\ ipc' = "failed"
    /\ UNCHANGED <<expected, optIdx, hsTimer, isReady, isAnalyzing, mu>>

\* exec.Command, the three pipes, cmd.Start.
Launch ==
    /\ phase = "constructing" /\ ipc = "launch"
    /\ \/ /\ ipc' = "send_uci"
          /\ UNCHANGED <<phase, cur, poolVars, closed>>
       \/ /\ ipc' = "failed"
          /\ PoolCtorAbort(closed)
    /\ UNCHANGED <<expected, optIdx, hsTimer, isReady, isAnalyzing, eof, mu,
                   hslog, initFailed, callerVars, closerVars>>

\* sendCommand("uci"), then waitForResponse("uciok") arms its timer.
SendUci ==
    /\ phase = "constructing" /\ ipc = "send_uci"
    /\ \/ /\ hslog' = [hslog EXCEPT ![cur] = Append(@, "uci")]
          /\ ipc' = "select" /\ expected' = "uciok" /\ hsTimer' = FALSE
          /\ UNCHANGED <<phase, cur, optIdx, poolVars, isReady, isAnalyzing,
                         closed, mu, initFailed>>
       \/ /\ InitFail /\ UNCHANGED hslog
    /\ UNCHANGED <<eof, callerVars, closerVars>>

\* The 10 second timer of the waitForResponse in progress fires.
HsTimerFire ==
    /\ phase = "constructing" /\ ipc \in {"select", "scan"} /\ ~hsTimer
    /\ hsTimer' = TRUE
    /\ UNCHANGED <<phase, cur, ipc, expected, optIdx, poolVars, engVars,
                   callerVars, closerVars>>

\* waitForResponse's select: the timeout case wins when the timer has fired,
\* otherwise the default case calls scanner.Scan().
HsSelectSeesTimeout == ipc = "select" /\ hsTimer

HsSelect ==
    /\ phase = "constructing" /\ ipc = "select"
    /\ IF HsSelectSeesTimeout
         THEN InitFail /\ UNCHANGED hslog
         ELSE /\ ipc' = "scan"
              /\ UNCHANGED <<phase, cur, expected, optIdx, hsTimer, poolVars,
                             isReady, isAnalyzing, closed, mu, hslog, initFailed>>
    /\ UNCHANGED <<eof, callerVars, closerVars>>

\* initialize has seen readyok: isReady = true; NewEnginePool appends the
\* engine, sends it on Available and goes on to the next one.
InitDone ==
    /\ isReady' = [isReady EXCEPT ![cur] = TRUE]
    /\ Engines' = Append(Engines, cur)
    /\ Available' = SendChan(Available, cur)
    /\ IF cur = MaxEngines
         THEN phase' = "running" /\ ipc' = "done" /\ cur' = cur
         ELSE phase' = phase /\ ipc' = "launch" /\ cur' = cur + 1
    /\ UNCHANGED <<optIdx, chanClosed, isAnalyzing, closed, mu, initFailed>>

\* scanner.Scan() inside waitForResponse returns: a line, or false.
HsScan ==
    /\ phase = "constructing" /\ ipc = "scan"
    /\ \/ \E line \in HsLines :
            IF ResponseMatches(line, expected)
              THEN /\ hslog' = [hslog EXCEPT ![cur] = Append(@, line)]
                   /\ expected' = "none" /\ hsTimer' = FALSE
                   /\ UNCHANGED eof
                   /\ IF expected = "uciok"
                        THEN /\ ipc' = "configure" /\ optIdx' = 0
                             /\ UNCHANGED <<phase, cur, poolVars, isReady,
                                            isAnalyzing, closed, mu, initFailed>>
                        ELSE InitDone
              ELSE /\ ipc' = "select"
                   /\ UNCHANGED <<phase, cur, expected, optIdx, hsTimer,
                                  poolVars, engVars>>
       \/ /\ eof' = [eof EXCEPT ![cur] = TRUE]
          /\ InitFail /\ UNCHANGED hslog
    /\ UNCHANGED <<callerVars, closerVars>>

\* configureEngine: one setoption command per loop iteration.
Configure ==
    /\ phase = "constructing" /\ ipc = "configure"
    /\ \/ /\ hslog' = [hslog EXCEPT ![cur] = Append(@, "setoption")]
          /\ optIdx' = optIdx + 1
          /\ ipc' = IF optIdx + 1 = NumOptions THEN "send_isready" ELSE "configure"
          /\ UNCHANGED <<phase, cur, expected, hsTimer, poolVars, isReady,
                         isAnalyzing, closed, mu, initFailed>>
       \/ /\ InitFail /\ UNCHANGED hslog
    /\ UNCHANGED <<eof, callerVars, closerVars>>

\* sendCommand("isready"), then waitForResponse("readyok") arms its timer.
SendIsReady ==
    /\ phase = "constructing" /\ ipc = "send_isready"
    /\ \/ /\ hslog' = [hslog EXCEPT ![cur] = Append(@, "isready")]
          /\ ipc' = "select" /\ expected' = "readyok" /\ hsTimer' = FALSE
          /\ UNCHANGED <<phase, cur, optIdx, poolVars, isReady, isAnalyzing,
                         closed, mu, initFailed>>
       \/ /\ InitFail /\ UNCHANGED hslog
    /\ UNCHANGED <<eof, callerVars, closerVars>>

\* ---- request goroutines -------------------------------------------------
\* A request reaches its GetEngine call: AnalysisService.AnalyzePosition, or
\* AnalysisService.AnalyzeGame at the top of performGameAnalysis.
Request_Nested(c) ==
    /\ phase = "running" /\ pc[c] \in {"idle", "lock"}
    /\ pc' = [pc EXCEPT ![c] = "get"]
    /\ UNCHANGED <<held, movesLeft, ctxDone, timerFired, res>>
    /\ UNCHANGED <<ctorVars, poolVars, engVars, closerVars>>
Request(c) ==
    /\ phase = "running" /\ pc[c] = "idle"
    /\ pc' = [pc EXCEPT ![c] = "get"]
    /\ UNCHANGED <<held, movesLeft, ctxDone, timerFired, res>>
    /\ UNCHANGED <<ctorVars, poolVars, engVars, closerVars>>

\* EnginePool.GetEngine: <-p.Available.  The caller then runs n engine-level
\* analyses on the client before its deferred ReturnEngine: n = 1 for
\* AnalyzePosition, n = movesToAnalyze (computed after GetEngine) for
\* performGameAnalysis.  A nil client (closed, drained channel) is
\* dereferenced by the caller, which panics.
GetEngine(c, n) ==
    /\ phase = "running" /\ pc[c] = "get"
    /\ CanRecv(Available, chanClosed)
    /\ LET e == RecvValue(Available) IN
         /\ held' = [held EXCEPT ![c] = e]
         /\ Available' = RecvRest(Available)
         /\ pc' = [pc EXCEPT ![c] =
                     IF e = NoEngine THEN "panicked"
                     ELSE IF n = 0 THEN "ret" ELSE "lock"]
         /\ movesLeft' = [movesLeft EXCEPT ![c] = IF e = NoEngine THEN 0 ELSE n]
    /\ UNCHANGED <<ctxDone, timerFired, res, Engines, chanClosed>>
    /\ UNCHANGED <<ctorVars, engVars, closerVars>>

\* The engine-level AnalyzePosition has returned outcome r to the service.
\* performGameAnalysis goes on to the next move whatever r is (the error
\* branch is "continue") and leaves the loop after the last one; the
\* one-move case is AnalysisService.AnalyzePosition.  The context is not
\* consulted again once the loop is left.
AfterMove(c, r) ==
    /\ movesLeft' = [movesLeft EXCEPT ![c] = @ - 1]
    /\ pc' = [pc EXCEPT ![c] = IF movesLeft[c] - 1 > 0 THEN "lock" ELSE "ret"]
    /\ res' = [res EXCEPT ![c] = IF movesLeft[c] - 1 > 0 THEN "none" ELSE r]
    /\ ctxDone' = [ctxDone EXCEPT ![c] = IF movesLeft[c] - 1 > 0 THEN @ ELSE FALSE]

\* A return of the engine-level AnalyzePosition after the readiness check:
\* the deferred isAnalyzing = false and e.mu.Unlock() run.
EndAnalysis_KeepFlag(c, r) ==
    /\ isAnalyzing' = isAnalyzing
    /\ mu' = [mu EXCEPT ![held[c]] = 0]
    /\ timerFired' = [timerFired EXCEPT ![c] = FALSE]
    /\ AfterMove(c, r)
EndAnalysis(c, r) ==
    /\ isAnalyzing' = [isAnalyzing EXCEPT ![held[c]] = FALSE]
    /\ mu' = [mu EXCEPT ![held[c]] = 0]
    /\ timerFired' = [timerFired EXCEPT ![c] = FALSE]
    /\ AfterMove(c, r)

\* StockfishEngine.AnalyzePosition: e.mu.Lock(), the readiness check,
\* isAnalyzing = true.
BeginAnalysis_NoCheck(c) ==
    /\ phase = "running" /\ pc[c] = "lock"
    /\ mu[held[c]] = 0
    /\ isAnalyzing' = [isAnalyzing EXCEPT ![held[c]] = TRUE]
    /\ mu' = [mu EXCEPT ![held[c]] = c]
    /\ pc' = [pc EXCEPT ![c] = "send"]
    /\ UNCHANGED <<movesLeft, res, ctxDone>>
    /\ UNCHANGED <<held, timerFired>>
    /\ UNCHANGED <<isReady, closed, eof, hslog, initFailed>>
    /\ UNCHANGED <<ctorVars, poolVars, closerVars>>
BeginAnalysis(c) ==
    /\ phase = "running" /\ pc[c] = "lock"
    /\ mu[held[c]] = 0
    /\ IF ~isReady[held[c]]
         THEN /\ AfterMove(c, "notready")
              /\ UNCHANGED <<isAnalyzing, mu>>
         ELSE /\ isAnalyzing' = [isAnalyzing EXCEPT ![held[c]] = TRUE]
              /\ mu' = [mu EXCEPT ![held[c]] = c]
              /\ pc' = [pc EXCEPT ![c] = "send"]
              /\ UNCHANGED <<movesLeft, res, ctxDone>>
    /\ UNCHANGED <<held, timerFired>>
    /\ UNCHANGED <<isReady, closed, eof, hslog, initFailed>>
    /\ UNCHANGED <<ctorVars, poolVars, closerVars>>

\* sendCommand writes to e.stdin: it fails on a closed pipe, and may fail on
\* an open one (the engine has exited).
WriteCanSucceed(e) == ~closed[e]

\* The "position fen" and "go" commands; parseAnalysisOutput then arms its
\* 30 second timer.
SendCommands(c) ==
    /\ phase = "running" /\ pc[c] = "send"
    /\ \/ /\ WriteCanSucceed(held[c])
          /\ pc' = [pc EXCEPT ![c] = "select"]
          /\ timerFired' = [timerFired EXCEPT ![c] = FALSE]
          /\ UNCHANGED <<isAnalyzing, mu, movesLeft, res, ctxDone>>
       \/ EndAnalysis(c, "writeerr")
    /\ UNCHANGED held
    /\ UNCHANGED <<isReady, closed, eof, hslog, initFailed>>
    /\ UNCHANGED <<ctorVars, poolVars, closerVars>>

\* The request's context is cancelled (by its owner or its own deadline).
Cancel(c) ==
    /\ phase = "running" /\ pc[c] \in {"select", "scan"} /\ ~ctxDone[c]
    /\ ctxDone' = [ctxDone EXCEPT ![c] = TRUE]
    /\ UNCHANGED <<pc, held, movesLeft, timerFired, res>>
    /\ UNCHANGED <<ctorVars, poolVars, engVars, closerVars>>

\* The 30 second timer of parseAnalysisOutput fires.
TimerFire(c) ==
    /\ phase = "running" /\ pc[c] \in {"select", "scan"} /\ ~timerFired[c]
    /\ timerFired' = [timerFired EXCEPT ![c] = TRUE]
    /\ UNCHANGED <<pc, held, movesLeft, ctxDone, res>>
    /\ UNCHANGED <<ctorVars, poolVars, engVars, closerVars>>

\* parseAnalysisOutput's select: a ready ctx.Done() or timeout case is taken
\* (either one when both are ready); the default case, scanner.Scan(), only
\* when neither is.
SelectSeesDeadline(c) == pc[c] = "select" /\ (ctxDone[c] \/ timerFired[c])

Select(c) ==
    /\ phase = "running" /\ pc[c] = "select"
    /\ IF SelectSeesDeadline(c)
         THEN \/ ctxDone[c] /\ EndAnalysis(c, "cancelled")
              \/ timerFired[c] /\ EndAnalysis(c, "timeout")
         ELSE /\ pc' = [pc EXCEPT ![c] = "scan"]
              /\ UNCHANGED <<isAnalyzing, mu, movesLeft, res, timerFired, ctxDone>>
    /\ UNCHANGED held
    /\ UNCHANGED <<isReady, closed, eof, hslog, initFailed>>
    /\ UNCHANGED <<ctorVars, poolVars, closerVars>>

\* scanner.Scan() inside parseAnalysisOutput returns: a "bestmove" line ends
\* the analysis, any other line loops, false is the scanner error.  A scanner
\* that has returned false keeps returning false.
ScanLines == {"bestmove", "info"}

Scan(c) ==
    /\ phase = "running" /\ pc[c] = "scan"
    /\ \/ /\ ~eof[held[c]]
          /\ \E line \in ScanLines :
               IF line = "bestmove"
                 THEN EndAnalysis(c, "ok")
                 ELSE /\ pc' = [pc EXCEPT ![c] = "select"]
                      /\ UNCHANGED <<isAnalyzing, mu, movesLeft, res, timerFired, ctxDone>>
          /\ UNCHANGED eof
       \/ /\ eof' = [eof EXCEPT ![held[c]] = TRUE]
          /\ EndAnalysis(c, "scanerr")
    /\ UNCHANGED held
    /\ UNCHANGED <<isReady, closed, hslog, initFailed>>
    /\ UNCHANGED <<ctorVars, poolVars, closerVars>>

\* ---- the engine-level call as one step ---------------------------------
\* The outcomes of one engine-level AnalyzePosition that has passed the
\* readiness check on engine e, given whether the request's context was
\* already cancelled when it was called: the write of a command fails; the
\* context is cancelled or the 30 second timer fires at the select; the
\* scanner returns false; a "bestmove" line is read.
AnalysisOutcomes(e, cancelled) ==
    {"writeerr"} \cup
    (IF ~WriteCanSucceed(e) THEN {}
     ELSE {"cancelled", "timeout"} \cup
          (IF cancelled THEN {}
           ELSE {"scanerr"} \cup (IF eof[e] THEN {} ELSE {"ok"})))

\* StockfishEngine.AnalyzePosition from its first sendCommand to its return
\* with outcome r, taken as one step: it runs under e.mu and touches nothing
\* of the pool.
AnalyzeWith_AbortOnError(c, r) ==
    /\ phase = "running" /\ pc[c] = "send"
    /\ r \in AnalysisOutcomes(held[c], ctxDone[c])
    /\ eof' = [eof EXCEPT ![held[c]] = @ \/ r = "scanerr"]
    /\ isAnalyzing' = [isAnalyzing EXCEPT ![held[c]] = FALSE]
    /\ mu' = [mu EXCEPT ![held[c]] = 0]
    /\ movesLeft' = [movesLeft EXCEPT ![c] = IF r = "ok" THEN @ - 1 ELSE 0]
    /\ pc' = [pc EXCEPT ![c] =
                IF r = "ok" /\ movesLeft[c] - 1 > 0 THEN "lock" ELSE "ret"]
    /\ res' = [res EXCEPT ![c] =
                 IF r = "ok" /\ movesLeft[c] - 1 > 0 THEN "none" ELSE r]
    /\ ctxDone' = [ctxDone EXCEPT ![c] = FALSE]
    /\ UNCHANGED <<held, timerFired>>
    /\ UNCHANGED <<isReady, closed, hslog, initFailed>>
    /\ UNCHANGED <<ctorVars, poolVars, closerVars>>
AnalyzeWith(c, r) ==
    /\ phase = "running" /\ pc[c] = "send"
    /\ r \in AnalysisOutcomes(held[c], ctxDone[c])
    /\ eof' = [eof EXCEPT ![held[c]] = @ \/ r = "scanerr"]
    /\ isAnalyzing' = [isAnalyzing EXCEPT ![held[c]] = FALSE]
    /\ mu' = [mu EXCEPT ![held[c]] = 0]
    /\ movesLeft' = [movesLeft EXCEPT ![c] = @ - 1]
    /\ pc' = [pc EXCEPT ![c] = IF movesLeft[c] - 1 > 0 THEN "lock" ELSE "ret"]
    /\ res' = [res EXCEPT ![c] = IF movesLeft[c] - 1 > 0 THEN "none" ELSE r]
    /\ ctxDone' = [ctxDone EXCEPT ![c] =
                     IF movesLeft[c] - 1 > 0 THEN @ \/ r = "cancelled" ELSE FALSE]
    /\ UNCHANGED <<held, timerFired>>
    /\ UNCHANGED <<isReady, closed, hslog, initFailed>>
    /\ UNCHANGED <<ctorVars, poolVars, closerVars>>

AllOutcomes == {"writeerr", "cancelled", "timeout", "scanerr", "ok"}

Analyze(c) == \E r \in AllOutcomes : AnalyzeWith(c, r)

\* The deferred EnginePool.ReturnEngine: p.Available <- engine.  A send on a
\* closed channel panics; a send on a full buffer blocks.
ReturnEngine(c) ==
    /\ phase = "running" /\ pc[c] = "ret"
    /\ IF chanClosed
         THEN /\ pc' = [pc EXCEPT ![c] = "panicked"]
              /\ UNCHANGED Available
         ELSE /\ Len(Available) < MaxEngines
              /\ Available' = DeferredReturn(Available, held[c], res[c])
              /\ pc' = [pc EXCEPT ![c] = "idle"]
    /\ held' = [held EXCEPT ![c] = NoEngine]
    /\ movesLeft' = [movesLeft EXCEPT ![c] = 0]
    /\ ctxDone' = [ctxDone EXCEPT ![c] = FALSE]
    /\ res' = [res EXCEPT ![c] = "none"]
    /\ UNCHANGED <<timerFired, Engines, chanClosed>>
    /\ UNCHANGED <<ctorVars, engVars, closerVars>>

\* ---- AnalysisService.Close -> EnginePool.Close --------------------------
CloseStart ==
    /\ phase = "running" /\ cpc = "idle"
    /\ cpc' = "closing" /\ cidx' = 1
    /\ UNCHANGED <<ctorVars, poolVars, engVars, callerVars>>

\* engine.Close() for the next engine of p.Engines: waits for e.mu, closes
\* the three pipes and kills the process; the flags are not touched.
CloseEngine ==
    /\ cpc = "closing" /\ cidx <= Len(Engines)
    /\ mu[Engines[cidx]] = 0
    /\ closed' = [closed EXCEPT ![Engines[cidx]] = TRUE]
    /\ cidx' = cidx + 1
    /\ UNCHANGED <<cpc, isReady, isAnalyzing, eof, mu, hslog, initFailed>>
    /\ UNCHANGED <<ctorVars, poolVars, callerVars>>

\* close(p.Available), after the loop.
CloseChan ==
    /\ cpc = "closing" /\ cidx > Len(Engines)
    /\ chanClosed' = TRUE
    /\ cpc' = "done"
    /\ UNCHANGED <<cidx, Engines, Available>>
    /\ UNCHANGED <<ctorVars, engVars, callerVars>>

\* The steps of pool construction.
Construct ==
    \/ Launch
    \/ SendUci
    \/ HsTimerFire
    \/ HsSelect
    \/ HsScan
    \/ Configure
    \/ SendIsReady

\* The steps of AnalysisService.Close.
ClosePool ==
    \/ CloseStart
    \/ CloseEngine
    \/ CloseChan

\* Pool level: every engine-level call is one step.
Next ==
    \/ Construct /\ UNCHANGED auxVars
    \/ \E c \in Callers : Request(c) /\ UNCHANGED auxVars
    \/ \E c \in Callers : \E n \in 0..MaxMoves : GetEngine(c, n) /\ UNCHANGED auxVars
    \/ \E c \in Callers : BeginAnalysis(c) /\ UNCHANGED auxVars
    \/ \E c \in Callers : Analyze(c) /\ UNCHANGED auxVars
    \/ \E c \in Callers : ReturnEngine(c) /\ UNCHANGED auxVars
    \/ ClosePool /\ UNCHANGED auxVars

Spec == Init /\ [][Next]_vars

\* Client level: the engine-level call step by step, with its select, its
\* blocking scanner.Scan(), its timer and the request's context, for as many
\* request goroutines as the pool has clients.
ClientCallers == 1..MaxEngines

ClientNext ==
    \/ Construct /\ UNCHANGED auxVars
    \/ \E c \in ClientCallers : Request(c) /\ UNCHANGED auxVars
    \/ \E c \in ClientCallers : \E n \in 0..MaxMoves : GetEngine(c, n) /\ UNCHANGED auxVars
    \/ \E c \in ClientCallers : BeginAnalysis(c) /\ UNCHANGED auxVars
    \/ \E c \in ClientCallers : SendCommands(c) /\ UNCHANGED auxVars
    \/ \E c \in ClientCallers : Cancel(c) /\ UNCHANGED auxVars
    \/ \E c \in ClientCallers : TimerFire(c) /\ UNCHANGED auxVars
    \/ \E c \in ClientCallers : Select(c) /\ UNCHANGED auxVars
    \/ \E c \in ClientCallers : Scan(c) /\ UNCHANGED auxVars
    \/ \E c \in ClientCallers : ReturnEngine(c) /\ UNCHANGED auxVars
    \/ ClosePool /\ UNCHANGED auxVars

ClientSpec == Init /\ [][ClientNext]_vars

\* ---- AnalysisService: AnalyzeGame, AnalyzePosition, the cache ----------
origVars == <<ctorVars, poolVars, engVars, callerVars, closerVars>>

ServiceCallers == 1..MaxEngines

\* AnalyzeGame is called with request r: generateCacheKey, then getFromCache.
StartGame(c, r) ==
    /\ phase = "running" /\ spc[c] = "none" /\ pc[c] = "idle"
    /\ spc' = [spc EXCEPT ![c] = "lookup"]
    /\ req' = [req EXCEPT ![c] = r]
    /\ UNCHANGED <<cache, rwReaders, rwWriter, analysis, outcomes, acquired,
                   out, clpc, stpc, nClose, fnVars, origVars>>

\* getFromCache: s.cacheMutex.RLock().
GetFromCacheLock(c) ==
    /\ spc[c] = "lookup"
    /\ rwWriter = 0
    /\ rwReaders' = rwReaders \cup {c}
    /\ spc' = [spc EXCEPT ![c] = "reading"]
    /\ UNCHANGED <<cache, rwWriter, req, analysis, outcomes, acquired, out,
                   clpc, stpc, nClose, fnVars, origVars>>

\* getFromCache: return s.cache[key], RUnlock; AnalyzeGame returns the cached
\* analysis when it is not nil and goes on to ValidatePGN otherwise.
GetFromCacheRead(c) ==
    /\ spc[c] = "reading"
    /\ rwReaders' = rwReaders \ {c}
    /\ LET cached == getFromCache(cache, generateCacheKey(req[c])) IN
         IF cached # NoResult
           THEN /\ out' = [out EXCEPT ![c] = Return(cached, "nil")]
                /\ spc' = [spc EXCEPT ![c] = "hit"]
           ELSE /\ out' = out
                /\ spc' = [spc EXCEPT ![c] = "validate"]
    /\ UNCHANGED <<cache, rwWriter, req, analysis, outcomes, acquired,
                   clpc, stpc, nClose, fnVars, origVars>>

\* ValidatePGN, ParsePGN, ExtractPositions: a rejected transcript returns a
\* ValidationError; an accepted one always parses, and performGameAnalysis is
\* entered, up to its GetEngine call.
Validate(c) ==
    /\ spc[c] = "validate"
    /\ IF ~ValidatePGN(req[c].pgn)
         THEN /\ out' = [out EXCEPT ![c] = Return(NoResult, "ValidationError")]
              /\ spc' = [spc EXCEPT ![c] = "invalid"]
              /\ UNCHANGED origVars
         ELSE /\ Request(c)
              /\ spc' = [spc EXCEPT ![c] = "analyse"]
              /\ out' = out
    /\ UNCHANGED <<cache, rwReaders, rwWriter, req, analysis, outcomes,
                   acquired, clpc, stpc, nClose, fnVars>>

\* AnalysisService.AnalyzePosition is called, up to its GetEngine call.
StartPosition(c) ==
    /\ spc[c] = "none"
    /\ Request(c)
    /\ spc' = [spc EXCEPT ![c] = "position"]
    /\ UNCHANGED <<cache, rwReaders, rwWriter, req, analysis, outcomes,
                   acquired, out, clpc, stpc, nClose, fnVars>>

\* The GetEngine call of the request: performGameAnalysis then runs
\* movesToAnalyze engine-level calls on the client, AnalyzePosition one.
ServiceGetEngine(c) ==
    /\ spc[c] \in {"analyse", "position"}
    /\ GetEngine(c, IF spc[c] = "analyse" THEN movesToAnalyze(req[c]) ELSE 1)
    /\ acquired' = [acquired EXCEPT ![c] = @ + 1]
    /\ UNCHANGED <<cache, rwReaders, rwWriter, spc, req, analysis, outcomes,
                   out, clpc, stpc, nClose, fnVars>>

\* The engine-level call passes or fails its readiness check.
ServiceBegin(c) ==
    /\ spc[c] \in {"analyse", "position"}
    /\ BeginAnalysis(c)
    /\ outcomes' = [outcomes EXCEPT ![c] =
                      IF isReady[held[c]] THEN @ ELSE Append(@, FALSE)]
    /\ UNCHANGED <<cache, rwReaders, rwWriter, spc, req, analysis, acquired,
                   out, clpc, stpc, nClose, fnVars>>

\* The engine-level call returns outcome r.  performGameAnalysis appends the
\* MoveAnalysis (MoveNumber i+1) when err == nil and continues otherwise.
ServiceAnalyze(c, r) ==
    /\ spc[c] \in {"analyse", "position"}
    /\ AnalyzeWith(c, r)
    /\ outcomes' = [outcomes EXCEPT ![c] = Append(@, r = "ok")]
    /\ analysis' = [analysis EXCEPT ![c] =
                      IF spc[c] = "analyse" /\ r = "ok"
                        THEN Append(@, Len(outcomes[c]) + 1) ELSE @]
    /\ UNCHANGED <<cache, rwReaders, rwWriter, spc, req, acquired, out,
                   clpc, stpc, nClose, fnVars>>

\* The deferred ReturnEngine: performGameAnalysis returns (analysis, nil) to
\* AnalyzeGame, AnalysisService.AnalyzePosition returns the engine's result.
ServiceReturn(c) ==
    /\ spc[c] \in {"analyse", "position"}
    /\ ReturnEngine(c)
    /\ spc' = [spc EXCEPT ![c] = IF spc[c] = "analyse" THEN "add" ELSE "returned"]
    /\ out' = [out EXCEPT ![c] =
                 IF spc[c] = "analyse" THEN @
                 ELSE Return(NoResult, IF res[c] = "ok" THEN "nil" ELSE res[c])]
    /\ UNCHANGED <<cache, rwReaders, rwWriter, req, analysis, outcomes,
                   acquired, clpc, stpc, nClose, fnVars>>

\* addToCache: s.cacheMutex.Lock().
AddToCacheLock(c) ==
    /\ spc[c] = "add"
    /\ rwWriter = 0 /\ rwReaders = {}
    /\ rwWriter' = c
    /\ spc' = [spc EXCEPT ![c] = "adding"]
    /\ UNCHANGED <<cache, rwReaders, req, analysis, outcomes, acquired, out,
                   clpc, stpc, nClose, fnVars, origVars>>

\* addToCache: eviction, s.cache[key] = analysis, Unlock; AnalyzeGame returns
\* the analysis.
AddToCacheWrite(c) ==
    /\ spc[c] = "adding"
    /\ cache' \in addToCache(cache, generateCacheKey(req[c]),
                             GameAnalysis(req[c], analysis[c]))
    /\ rwWriter' = 0
    /\ out' = [out EXCEPT ![c] = Return(GameAnalysis(req[c], analysis[c]), "nil")]
    /\ spc' = [spc EXCEPT ![c] = "stored"]
    /\ UNCHANGED <<rwReaders, req, analysis, outcomes, acquired, clpc, stpc,
                   nClose, fnVars, origVars>>

\* The request has returned to its caller.
Returned == {"hit", "invalid", "stored", "returned"}

Finish(c) ==
    /\ spc[c] \in Returned
    /\ spc' = [spc EXCEPT ![c] = "none"]
    /\ req' = [req EXCEPT ![c] = NoRequest]
    /\ analysis' = [analysis EXCEPT ![c] = <<>>]
    /\ outcomes' = [outcomes EXCEPT ![c] = <<>>]
    /\ acquired' = [acquired EXCEPT ![c] = 0]
    /\ out' = [out EXCEPT ![c] = NoReturn]
    /\ UNCHANGED <<cache, rwReaders, rwWriter, clpc, stpc, nClose, fnVars, origVars>>

\* ClearCache: s.cacheMutex.Lock().
ClearCacheLock ==
    /\ phase = "running" /\ clpc = "idle"
    /\ rwWriter = 0 /\ rwReaders = {}
    /\ rwWriter' = ClearId
    /\ clpc' = "clearing"
    /\ UNCHANGED <<cache, rwReaders, spc, req, analysis, outcomes, acquired,
                   out, stpc, nClose, fnVars, origVars>>

\* ClearCache: s.cache = make(map...), Unlock.
ClearCacheWrite ==
    /\ clpc = "clearing"
    /\ cache' = EmptyCache
    /\ rwWriter' = 0
    /\ clpc' = "idle"
    /\ UNCHANGED <<rwReaders, spc, req, analysis, outcomes, acquired, out,
                   stpc, nClose, fnVars, origVars>>

\* GetEngineStatus evaluates len(s.cache) for "cache_size": it takes no lock.
GetEngineStatusRead ==
    /\ phase = "running" /\ stpc = "idle"
    /\ stpc' = "reading"
    /\ UNCHANGED <<cache, rwReaders, rwWriter, spc, req, analysis, outcomes,
                   acquired, out, clpc, nClose, fnVars, origVars>>

GetEngineStatusReturn ==
    /\ stpc = "reading"
    /\ stpc' = "idle"
    /\ UNCHANGED <<cache, rwReaders, rwWriter, spc, req, analysis, outcomes,
                   acquired, out, clpc, nClose, fnVars, origVars>>

\* Service level: AnalyzeGame and AnalyzePosition requests on an open pool.
ServiceNext ==
    \/ Construct /\ UNCHANGED auxVars
    \/ \E c \in ServiceCallers : \E r \in Requests : StartGame(c, r)
    \/ \E c \in ServiceCallers : GetFromCacheLock(c)
    \/ \E c \in ServiceCallers : GetFromCacheRead(c)
    \/ \E c \in ServiceCallers : Validate(c)
    \/ \E c \in ServiceCallers : StartPosition(c)
    \/ \E c \in ServiceCallers : ServiceGetEngine(c)
    \/ \E c \in ServiceCallers : ServiceBegin(c)
    \/ \E c \in ServiceCallers : \E r \in AllOutcomes : ServiceAnalyze(c, r)
    \/ \E c \in ServiceCallers : ServiceReturn(c)
    \/ \E c \in ServiceCallers : AddToCacheLock(c)
    \/ \E c \in ServiceCallers : AddToCacheWrite(c)
    \/ \E c \in ServiceCallers : Finish(c)

ServiceSpec == Init /\ [][ServiceNext]_vars

\* Cache level: the requests with ClearCache and GetEngineStatus calls beside
\* them.
CacheNext ==
    \/ ServiceNext
    \/ ClearCacheLock
    \/ ClearCacheWrite
    \/ GetEngineStatusRead
    \/ GetEngineStatusReturn

CacheSpec == Init /\ [][CacheNext]_vars

\* ---- a client used directly ---------------------------------------------
\* The states of a StockfishEngine value: "fresh" is the struct literal of
\* NewStockfishEngine before initialize, "failed" is after a failed
\* initialize and the Close that follows it, "ready" after initialize.
ClientStates == {"fresh", "failed", "ready"}

\* Clients built by NewStockfishEngine outside a pool, each in one of its
\* states, and goroutines that share them: every goroutine calls
\* AnalyzePosition MaxMoves times on its client.
EngineInit ==
    /\ phase = "running" /\ cur = MaxEngines /\ ipc = "done"
    /\ expected = "none" /\ optIdx = 0 /\ hsTimer = FALSE
    /\ Engines = <<>> /\ Available = <<>> /\ chanClosed = FALSE
    /\ \E st \in [EngineIds -> ClientStates] :
         /\ isReady = [e \in EngineIds |-> st[e] = "ready"]
         /\ closed = [e \in EngineIds |-> st[e] = "failed"]
         /\ initFailed = [e \in EngineIds |-> st[e] = "failed"]
         /\ hslog = [e \in EngineIds |->
                       IF st[e] = "ready" THEN FullHandshake
                       ELSE IF st[e] = "failed" THEN <<"uci">> ELSE <<>>]
    /\ isAnalyzing = [e \in EngineIds |-> FALSE]
    /\ eof = [e \in EngineIds |-> FALSE]
    /\ mu = [e \in EngineIds |-> 0]
    /\ \E h \in [ClientCallers -> EngineIds] :
         held = [c \in Callers |-> IF c \in ClientCallers THEN h[c] ELSE NoEngine]
    /\ pc = [c \in Callers |-> IF c \in ClientCallers THEN "lock" ELSE "idle"]
    /\ movesLeft = [c \in Callers |-> IF c \in ClientCallers THEN MaxMoves ELSE 0]
    /\ ctxDone = [c \in Callers |-> FALSE]
    /\ timerFired = [c \in Callers |-> FALSE]
    /\ res = [c \in Callers |-> "none"]
    /\ cpc = "idle" /\ cidx = 1
    /\ cache = EmptyCache /\ rwReaders = {} /\ rwWriter = 0
    /\ spc = [c \in Callers |-> "none"]
    /\ req = [c \in Callers |-> NoRequest]
    /\ analysis = [c \in Callers |-> <<>>]
    /\ outcomes = [c \in Callers |-> <<>>]
    /\ acquired = [c \in Callers |-> 0]
    /\ out = [c \in Callers |-> NoReturn]
    /\ clpc = "idle" /\ stpc = "idle"
    /\ nClose = [e \in EngineIds |-> 0]
    /\ fpc = "none" /\ farg = <<>> /\ fval = <<>>

\* StockfishEngine.Close called on client e: e.mu.Lock(), the three pipes are
\* closed, the process is killed; isReady and isAnalyzing are not touched.
DirectClose(e) ==
    /\ nClose[e] < MaxCloseCalls
    /\ mu[e] = 0
    /\ closed' = ClosedBy(closed, e)
    /\ nClose' = [nClose EXCEPT ![e] = @ + 1]
    /\ UNCHANGED <<isReady, isAnalyzing, eof, mu, hslog, initFailed>>
    /\ UNCHANGED <<ctorVars, poolVars, callerVars, closerVars, svcVars, fnVars>>

EngineNext ==
    \/ \E c \in ClientCallers : BeginAnalysis(c) /\ UNCHANGED auxVars
    \/ \E c \in ClientCallers : SendCommands(c) /\ UNCHANGED auxVars
    \/ \E c \in ClientCallers : Cancel(c) /\ UNCHANGED auxVars
    \/ \E c \in ClientCallers : TimerFire(c) /\ UNCHANGED auxVars
    \/ \E c \in ClientCallers : Select(c) /\ UNCHANGED auxVars
    \/ \E c \in ClientCallers : Scan(c) /\ UNCHANGED auxVars
    \/ \E e \in EngineIds : DirectClose(e)

EngineSpec == EngineInit /\ [][EngineNext]_vars

\* ---- one engine-level AnalyzePosition on the wire ----------------------
sysVars == <<origVars, svcVars, nClose>>

MaxInfoLines == 2        \* info lines the engine emits before its last line

\* models.EngineSettings, as far as the search command reads it.
SettingsSet == [Depth : {10}, TimeLimit : {-1, 0, 1000}, MultiPV : {0, 1, 2}]

\* fmt.Sprintf("position fen %s", fen), as tokens.
positionCmd(fen) == <<"position", "fen", fen>>

\* analysisCmd of AnalyzePosition, as tokens.
analysisCmd_DepthOnly(st) == <<"go", "depth", st.Depth>>
analysisCmd(st) ==
    (IF st.TimeLimit > 0 THEN <<"go", "movetime", st.TimeLimit>>
                         ELSE <<"go", "depth", st.Depth>>)
    \o (IF st.MultiPV > 1 THEN <<"multipv", st.MultiPV>> ELSE <<>>)

\* The lines an engine emits.  An info line carries "score cp <c>", "score
\* mate <m>" or no score, and the moves after its "pv" token; a line that
\* starts with "bestmove" carries the token after it, if any.
Scores == {<<"none", 0>>, <<"cp", 35>>, <<"cp", 0>>, <<"cp", -120>>,
           <<"mate", 3>>, <<"mate", -2>>}
PVs == {<<>>, <<"e2e4">>, <<"d2d4", "d7d5">>}
InfoLines == [kind : {"info"}, score : Scores, pv : PVs, move : {""}]
BestmoveLines == [kind : {"bestmove"}, score : {<<"none", 0>>}, pv : {<<>>},
                  move : {"", "e2e4"}]

\* What the engine writes after "go": info lines, then a bestmove line, or
\* the end of its output.
EngineOutputs ==
    LET infos == UNION {[1..n -> InfoLines] : n \in 0..MaxInfoLines}
    IN  infos \cup {i \o <<b>> : i \in infos, b \in BestmoveLines}

\* extractFloat(line, "score cp"): the regexp is score cp\s+(-?\d+).
extractFloatScoreCp(line) == IF line.score[1] = "cp" THEN line.score[2] ELSE 0

\* extractInt(line, "score mate"): the regexp is score mate\s+(\d+), which a
\* negative number does not match.
extractIntScoreMate(line) ==
    IF line.score[1] = "mate" /\ line.score[2] >= 0 THEN line.score[2] ELSE 0

\* parseInfoLine's evaluation, in hundredths of a pawn.
updateEvaluation(ev, line) ==
    IF extractFloatScoreCp(line) # 0 THEN extractFloatScoreCp(line)
    ELSE IF extractIntScoreMate(line) # 0
      THEN (IF extractIntScoreMate(line) > 0
              THEN 100 * (1000 - extractIntScoreMate(line))
              ELSE 100 * (-1000 - extractIntScoreMate(line)))
      ELSE ev

\* parseInfoLine's principal variation: extractPV, kept when not empty.
updatePV_KeepFirst(pv, line) == IF Len(pv) > 0 THEN pv ELSE line.pv
updatePV(pv, line) == IF Len(line.pv) > 0 THEN line.pv ELSE pv

\* var result models.AnalysisResult; var pvLines []string
ZeroResult == [Evaluation |-> 0, BestMove |-> "", PrincipalVariation |-> <<>>]

\* The call starts: its settings, and what the engine will answer.
ProtocolInit ==
    /\ InitSystem
    /\ fpc = "position"
    /\ farg \in [settings : SettingsSet, lines : EngineOutputs]
    /\ fval = [sent |-> <<>>, rest |-> farg.lines, result |-> ZeroResult,
               pvLines |-> <<>>, err |-> "none"]

\* sendCommand("position fen ...")
SendPosition ==
    /\ fpc = "position"
    /\ fval' = [fval EXCEPT !.sent = Append(@, positionCmd("fen"))]
    /\ fpc' = "go"
    /\ UNCHANGED <<farg, sysVars>>

\* sendCommand(analysisCmd)
SendGo ==
    /\ fpc = "go"
    /\ fval' = [fval EXCEPT !.sent = Append(@, analysisCmd(farg.settings))]
    /\ fpc' = "read"
    /\ UNCHANGED <<farg, sysVars>>

\* One iteration of parseAnalysisOutput's loop with neither the context done
\* nor the timer fired: scanner.Scan() and the line it yields.
ReadLine ==
    /\ fpc = "read"
    /\ IF fval.rest = <<>>
         THEN /\ fval' = [fval EXCEPT !.err = "scanner error during analysis"]
              /\ fpc' = "returned"
         ELSE LET line == Head(fval.rest) IN
              IF line.kind = "bestmove"
                THEN /\ fval' = [fval EXCEPT
                            !.rest = Tail(@),
                            !.result = [@ EXCEPT
                                !.BestMove = IF line.move # "" THEN line.move ELSE @,
                                !.PrincipalVariation = fval.pvLines],
                            !.err = "nil"]
                     /\ fpc' = "returned"
                ELSE /\ fval' = [fval EXCEPT
                            !.rest = Tail(@),
                            !.result = [@ EXCEPT
                                !.Evaluation = updateEvaluation(@, line)],
                            !.pvLines = updatePV(@, line)]
                     /\ fpc' = fpc
    /\ UNCHANGED <<farg, sysVars>>

ProtocolNext ==
    \/ SendPosition
    \/ SendGo
    \/ ReadLine

ProtocolSpec == ProtocolInit /\ [][ProtocolNext]_vars

\* ---- move accuracy and the game totals ---------------------------------
\* Evaluations are in hundredths of a pawn, accuracies in twentieths of a
\* percent, so that 100 - 10e and 100 + 15e stay integers.
Pct(n) == 20 * n

\* Evaluations around every threshold of the classification, and a mate score.
Evaluations == {-600, -334, -333, -134, -133, -67, -66, -34, -33, -1, 0,
                20, 50, 51, 100, 101, 200, 201, 500, 501, 99700}
Colors == {"white", "black"}
Buckets == {"blunder", "mistake", "inaccuracy", "best"}

\* calculateMoveAccuracy
calculateMoveAccuracy_Symmetric(ev) == Pct(100) - 2 * (IF ev >= 0 THEN ev ELSE -ev)
calculateMoveAccuracy(ev) ==
    IF ev >= 0 THEN Pct(100) - 2 * ev ELSE Pct(100) + 3 * ev

\* createMoveAnalysis: the quality flags.
IsBlunder(acc) == acc < Pct(50)
IsMistake_Overlap(acc) == acc < Pct(80)
IsMistake(acc) == acc >= Pct(50) /\ acc < Pct(80)
IsInaccuracy(acc) == acc >= Pct(80) /\ acc < Pct(90)

createMoveAnalysis(ev, n) ==
    LET acc == calculateMoveAccuracy(ev) IN
    [MoveNumber |-> n, Evaluation |-> ev, Accuracy |-> acc,
     Blunder |-> IsBlunder(acc), Mistake |-> IsMistake(acc),
     Inaccuracy |-> IsInaccuracy(acc)]

\* "Count move quality" of performGameAnalysis: the counter a move goes to.
QualityBucket(m) ==
    IF m.Blunder THEN "blunder"
    ELSE IF m.Mistake THEN "mistake"
    ELSE IF m.Inaccuracy THEN "inaccuracy"
    ELSE IF m.Accuracy >= Pct(95) THEN "best"
    ELSE "none"

ZeroTotals == [b \in Buckets |-> 0]

\* A float64 quotient sum / n: 0 / 0 is NaN, not a number.
Mean(sum, n) == [defined |-> n # 0, sum |-> sum, n |-> n]
ZeroMean == Mean(0, 1)

\* The accuracy sum and the move count of a side: calculateGameStatistics
\* takes a move for a white move when its MoveNumber is odd.
IsWhiteMove(m) == m.MoveNumber % 2 = 1
RECURSIVE SumAccuracy(_)
SumAccuracy(ms) == IF ms = <<>> THEN 0 ELSE Head(ms).Accuracy + SumAccuracy(Tail(ms))
WhiteMoves(ms) == SelectSeq(ms, IsWhiteMove)
BlackMoves(ms) == SelectSeq(ms, LAMBDA m : ~IsWhiteMove(m))

\* The state of performGameAnalysis before its loop.
LoopStart(game) ==
    [rest |-> game, moves |-> <<>>,
     counts |-> [x \in Colors \X Buckets |-> 0],
     totals |-> ZeroTotals,
     WhiteAccuracy |-> ZeroMean, BlackAccuracy |-> ZeroMean]

\* The moves of a game: the colour the parser gave each, whether its
\* engine-level analysis succeeds, and the evaluation it then returns.
ScoreInit ==
    /\ InitSystem
    /\ fpc = "score"
    /\ farg \in UNION {[1..n -> [ev : Evaluations, color : Colors, ok : BOOLEAN]] :
                        n \in 0..MaxMoves}
    /\ fval = LoopStart(farg)

\* One iteration of the move loop, for game.Moves[i]: nothing but i++ when
\* the engine call failed, else the MoveAnalysis with MoveNumber i+1 and the
\* quality count of the move's colour.
ScoreMove ==
    /\ fpc = "score" /\ fval.rest # <<>>
    /\ LET mv == Head(fval.rest)
           i  == Len(farg) - Len(fval.rest)
           m  == createMoveAnalysis(mv.ev, i + 1)
           b  == QualityBucket(m)
       IN  IF ~mv.ok
             THEN fval' = [fval EXCEPT !.rest = Tail(@)]
             ELSE fval' = [fval EXCEPT
                             !.rest = Tail(@),
                             !.moves = Append(@, m),
                             !.counts = IF b = "none" THEN @
                                        ELSE [@ EXCEPT ![<<mv.color, b>>] = @ + 1]]
    /\ UNCHANGED <<fpc, farg, sysVars>>

\* calculateGameStatistics: nothing when there is no move, else the mean
\* accuracy of each side and the totals.
GameStatistics ==
    /\ fpc = "score" /\ fval.rest = <<>>
    /\ fval' = IF Len(fval.moves) = 0 THEN fval
               ELSE [fval EXCEPT
                       !.WhiteAccuracy = Mean(SumAccuracy(WhiteMoves(fval.moves)),
                                              Len(WhiteMoves(fval.moves))),
                       !.BlackAccuracy = Mean(SumAccuracy(BlackMoves(fval.moves)),
                                              Len(BlackMoves(fval.moves))),
                       !.totals = [b \in Buckets |->
                          fval.counts[<<"white", b>>] + fval.counts[<<"black", b>>]]]
    /\ fpc' = "scored"
    /\ UNCHANGED <<farg, sysVars>>

ScoreNext ==
    \/ ScoreMove
    \/ GameStatistics

ScoreSpec == ScoreInit /\ [][ScoreNext]_vars

\* ---- PGN transcripts ---------------------------------------------------
\* A transcript is a sequence of tokens: a newline, a space, a word of the
\* moves text, or a line of header tags.  A word is never written next to
\* another word without white space between them.
MaxTokens == 4
MaxPairs == 2

NL == "\n"
SP == " "
requiredHeaders == {"event", "site", "date", "round", "white", "black", "result"}
Titles == [event |-> "Event", site |-> "Site", date |-> "Date", round |-> "Round",
           white |-> "White", black |-> "Black", result |-> "Result"]
Uppers == [event |-> "EVENT", site |-> "SITE", date |-> "DATE", round |-> "ROUND",
           white |-> "WHITE", black |-> "BLACK", result |-> "RESULT"]

\* Header lines: all seven tags, the same in capitals, all but one tag (one
\* line per tag), the result tag alone in lower case, and a line with the tag
\* WhiteElo where White should be.
AllButOne == [event |-> "H6event", site |-> "H6site", date |-> "H6date",
              round |-> "H6round", white |-> "H6white", black |-> "H6black",
              result |-> "H6result"]
HeaderLines == {"H7", "H7uc", "Hresult", "Helo"} \cup {AllButOne[h] : h \in requiredHeaders}

\* The tag names a header line holds, as gameRegex captures them.
Tags(t) ==
    IF t = "H7" THEN {Titles[h] : h \in requiredHeaders}
    ELSE IF t = "H7uc" THEN {Uppers[h] : h \in requiredHeaders}
    ELSE IF t = "Hresult" THEN {"result"}
    ELSE IF t = "Helo" THEN {Titles[h] : h \in requiredHeaders \ {"white"}} \cup {"WhiteElo"}
    ELSE IF \E h \in requiredHeaders : t = AllButOne[h]
         THEN {Titles[h] : h \in {g \in requiredHeaders : t # AllButOne[g]}}
    ELSE {}

\* strings.ToLower on a tag name
ToLower_Identity(k) == k
ToLower(k) ==
    IF \E h \in requiredHeaders : k \in {Titles[h], Uppers[h]}
    THEN CHOOSE h \in requiredHeaders : k \in {Titles[h], Uppers[h]}
    ELSE IF k = "WhiteElo" THEN "whiteelo"
    ELSE k

ResultMarkers == {"1-0", "0-1", "1/2-1/2", "*"}
MoveNames == {"e4", "e5"}
MoveNumbers == {"1.", "2."}
Comment == "{c}"

IsSpace(t) == t \in {NL, SP}

RECURSIVE TrimLeft(_)
TrimLeft(s) == IF s # <<>> /\ IsSpace(Head(s)) THEN TrimLeft(Tail(s)) ELSE s

RECURSIVE TrimRight(_)
TrimRight(s) ==
    IF s # <<>> /\ IsSpace(s[Len(s)]) THEN TrimRight(SubSeq(s, 1, Len(s) - 1)) ELSE s

\* strings.TrimSpace
TrimSpace(s) == TrimRight(TrimLeft(s))

\* strings.Split(s, "\n\n"): leftmost separators, not overlapping.
RECURSIVE SplitFrom(_, _)
SplitFrom(s, piece) ==
    IF s = <<>> THEN <<piece>>
    ELSE IF Len(s) >= 2 /\ s[1] = NL /\ s[2] = NL
         THEN <<piece>> \o SplitFrom(SubSeq(s, 3, Len(s)), <<>>)
    ELSE SplitFrom(Tail(s), Append(piece, Head(s)))

SplitBlankLine(s) == SplitFrom(s, <<>>)

\* strings.Split(s, "\n")
RECURSIVE LinesFrom(_, _)
LinesFrom(s, piece) ==
    IF s = <<>> THEN <<piece>>
    ELSE IF Head(s) = NL THEN <<piece>> \o LinesFrom(Tail(s), <<>>)
    ELSE LinesFrom(Tail(s), Append(piece, Head(s)))

SplitLines(s) == LinesFrom(s, <<>>)

\* strings.Fields
Fields(s) == SelectSeq(s, LAMBDA t : ~IsSpace(t))

\* parseHeaders: the keys of the header map.
parseHeaders(headerSection) ==
    {ToLower(k) : k \in UNION {Tags(headerSection[i]) : i \in 1..Len(headerSection)}}

\* ValidatePGN of the parser: "" for success, else the error.
PGNParser_ValidatePGN(pgn) ==
    LET parts == SplitBlankLine(pgn) IN
    IF TrimSpace(pgn) = <<>> THEN "empty PGN"
    ELSE IF requiredHeaders \ parseHeaders(parts[1]) # {} THEN "missing required header"
    ELSE IF Len(parts) < 2 THEN "missing moves section"
    ELSE IF TrimSpace(parts[2]) = <<>> THEN "empty moves section"
    ELSE ""

\* removeComments: {comments} go, then TrimSpace.
removeComments(text) == TrimSpace(SelectSeq(text, LAMBDA t : t # Comment))

determineMoveColor_ByNumber(moveNumber, position) ==
    IF moveNumber % 2 = 1 THEN "white" ELSE "black"
determineMoveColor(moveNumber, position) ==
    IF position % 2 = 0 THEN "white" ELSE "black"

\* strconv.Atoi of a word without its final "."
MoveNumberOf(w) == IF w = "1." THEN 1 ELSE 2

\* The loop of parseMoveLine over the fields of a line.
RECURSIVE MoveLoop(_, _, _, _)
MoveLoop(parts, currentMoveNumber, moveIndex, moves) ==
    IF parts = <<>> THEN moves
    ELSE LET part == Head(parts) IN
         IF part \in MoveNumbers
         THEN MoveLoop(Tail(parts), MoveNumberOf(part), 0, moves)
         ELSE IF part \in ResultMarkers
         THEN MoveLoop(Tail(parts), currentMoveNumber, moveIndex, moves)
         ELSE IF currentMoveNumber > 0
         THEN MoveLoop(Tail(parts), currentMoveNumber, moveIndex + 1,
                       Append(moves, [MoveNumber |-> currentMoveNumber,
                                      Move |-> part,
                                      Color |-> determineMoveColor(currentMoveNumber, moveIndex)]))
         ELSE MoveLoop(Tail(parts), currentMoveNumber, moveIndex, moves)

parseMoveLine(line) == MoveLoop(Fields(removeComments(line)), 0, 0, <<>>)

RECURSIVE ParseLines(_)
ParseLines(lines) ==
    IF lines = <<>> THEN <<>>
    ELSE LET line == TrimSpace(Head(lines)) IN
         (IF line = <<>> THEN <<>> ELSE parseMoveLine(line)) \o ParseLines(Tail(lines))

\* parseMoves: the result is taken from a final " R", the rest is parsed by line.
parseMoves(movesSection) ==
    LET s == TrimSpace(movesSection)
        n == Len(s)
        hasResult == n >= 2 /\ s[n] \in ResultMarkers /\ s[n - 1] = SP
        result == IF hasResult THEN Fields(s)[Len(Fields(s))] ELSE ""
        rest == IF hasResult THEN SubSeq(s, 1, n - 2) ELSE s
    IN  [moves |-> ParseLines(SplitLines(rest)), result |-> result]

ParsePGN(pgn) ==
    LET parts == SplitBlankLine(pgn) IN
    IF TrimSpace(pgn) = <<>>
    THEN [err |-> "empty PGN string", headers |-> {}, moves |-> <<>>, result |-> ""]
    ELSE IF Len(parts) < 2
    THEN [err |-> "invalid PGN format: missing moves section",
          headers |-> {}, moves |-> <<>>, result |-> ""]
    ELSE LET pm == parseMoves(parts[2]) IN
         [err |-> "", headers |-> parseHeaders(parts[1]),
          moves |-> pm.moves, result |-> pm.result]

\* Words joined by single spaces.
RECURSIVE JoinWords(_)
JoinWords(ws) ==
    IF ws = <<>> THEN <<>>
    ELSE IF Len(ws) = 1 THEN ws
    ELSE <<Head(ws), SP>> \o JoinWords(Tail(ws))

TokenSeqs(A, n) == UNION {[1..k -> A] : k \in 0..n}

\* Any transcript of at most MaxTokens tokens.
ValidateInit ==
    /\ InitSystem
    /\ fpc = "pgn"
    /\ farg \in TokenSeqs({NL, SP, "e4"} \cup HeaderLines, MaxTokens)
    /\ fval = <<>>

\* The seven headers, a blank line, and one line of at most MaxPairs
\* numbered pairs of words, with or without a final result marker.
ParseInit ==
    /\ InitSystem
    /\ fpc = "pgn"
    /\ \E body \in TokenSeqs(MoveNumbers \cup MoveNames \cup {"*", Comment}, 3 * MaxPairs),
          tail \in {<<>>} \cup {<<r>> : r \in ResultMarkers} :
          farg = <<"H7", NL, NL>> \o JoinWords(body \o tail)
    /\ fval = <<>>

ValidateTranscript ==
    /\ fpc = "pgn"
    /\ fpc' = "validated"
    /\ fval' = [err |-> PGNParser_ValidatePGN(farg)]
    /\ UNCHANGED <<farg, sysVars>>

ParseTranscript ==
    /\ fpc = "pgn"
    /\ fpc' = "parsed"
    /\ fval' = ParsePGN(farg)
    /\ UNCHANGED <<farg, sysVars>>

PgnNext ==
    \/ ValidateTranscript
    \/ ParseTranscript

ValidateSpec == ValidateInit /\ [][PgnNext]_vars

ParseNext == ParseTranscript

ParseSpec == ParseInit /\ [][ParseNext]_vars

\* ---- callers waiting for a client --------------------------------------
\* One more request goroutine than the pool has clients, and no Close.
LiveCallers == 1..(MaxEngines + 1)

AcquireStep(c) == \E n \in 0..MaxMoves : GetEngine(c, n) /\ UNCHANGED auxVars
LockStep(c) == BeginAnalysis(c) /\ UNCHANGED auxVars
AnalyzeStep(c) == Analyze(c) /\ UNCHANGED auxVars
ReleaseStep(c) == ReturnEngine(c) /\ UNCHANGED auxVars

LiveNext ==
    \/ Construct /\ UNCHANGED auxVars
    \/ \E c \in LiveCallers : Request(c) /\ UNCHANGED auxVars
    \/ \E c \in LiveCallers : AcquireStep(c)
    \/ \E c \in LiveCallers : LockStep(c)
    \/ \E c \in LiveCallers : AnalyzeStep(c)
    \/ \E c \in LiveCallers : ReleaseStep(c)

\* A caller that holds a client goes on to its deferred ReturnEngine: every
\* engine-level call returns, and a goroutine that can run does run.  A
\* goroutine blocked in <-p.Available sits in the channel's queue of waiting
\* receivers, which the runtime serves first come first served: a send hands
\* the client to the longest waiting receiver, so a receiver that could
\* receive again and again does receive.
LiveFairness ==
    \A c \in LiveCallers :
        /\ WF_vars(LockStep(c))
        /\ WF_vars(AnalyzeStep(c))
        /\ WF_vars(ReleaseStep(c))
        /\ SF_vars(AcquireStep(c))

LiveSpec == Init /\ [][LiveNext]_vars /\ LiveFairness

\* ---- successive searches on one client --------------------------------
\* One client of the pool, used by one AnalyzePosition call after another.
\* The engine answers every "go" with info lines and a "bestmove" line,
\* search after search in the order of the commands; the lines wait in the
\* stdout pipe until e.scanner reads them.  Every line carries the number of
\* the search it belongs to.
MaxSearches == 3
MaxInfoPerSearch == 1

SearchInit ==
    /\ InitSystem
    /\ fpc = "pooled"
    /\ farg = <<>>
    /\ fval = [search |-> 0, pending |-> <<>>, pipe |-> <<>>,
               infoOf |-> {}, prev |-> "none",
               last |-> [how |-> "none", best |-> 0, infos |-> {}]]

\* GetEngine, then AnalyzePosition up to its second sendCommand: the engine
\* has one more search to answer.  The result of the call starts empty.
StartSearch ==
    /\ fpc = "pooled" /\ fval.search < MaxSearches
    /\ fval' = [fval EXCEPT
                  !.search = @ + 1,
                  !.pending = Append(@, [of |-> fval.search + 1, infos |-> 0]),
                  !.infoOf = {},
                  !.prev = fval.last.how]
    /\ fpc' = "reading"
    /\ UNCHANGED <<farg, sysVars>>

\* The engine process writes the next line of its oldest unanswered search.
EngineWrites ==
    /\ fpc \in {"pooled", "reading"} /\ fval.pending # <<>>
    /\ LET p == Head(fval.pending) IN
         \/ /\ p.infos < MaxInfoPerSearch
            /\ fval' = [fval EXCEPT
                          !.pipe = Append(@, [kind |-> "info", of |-> p.of]),
                          !.pending = <<[p EXCEPT !.infos = @ + 1]>> \o Tail(@)]
         \/ fval' = [fval EXCEPT
                       !.pipe = Append(@, [kind |-> "bestmove", of |-> p.of]),
                       !.pending = Tail(@)]
    /\ UNCHANGED <<fpc, farg, sysVars>>

\* parseAnalysisOutput's default case: e.scanner.Scan() yields the next line
\* of the pipe; "bestmove" ends the call, an info line is merged into result.
\* The deferred ReturnEngine follows the return.
ReadOutput ==
    /\ fpc = "reading" /\ fval.pipe # <<>>
    /\ LET line == Head(fval.pipe) IN
         IF line.kind = "bestmove"
           THEN /\ fval' = [fval EXCEPT
                              !.pipe = Tail(@),
                              !.last = [how |-> "ok", best |-> line.of,
                                        infos |-> fval.infoOf]]
                /\ fpc' = "pooled"
           ELSE /\ fval' = [fval EXCEPT
                              !.pipe = Tail(@),
                              !.infoOf = @ \cup {line.of}]
                /\ fpc' = "reading"
    /\ UNCHANGED <<farg, sysVars>>

\* parseAnalysisOutput's select finds ctx.Done() or the 30 second timer
\* ready: the call returns an error, nothing is sent to the engine and
\* nothing is read from the pipe; the deferred ReturnEngine follows.
Abandon ==
    /\ fpc = "reading"
    /\ \E how \in {"timeout", "cancelled"} :
         fval' = [fval EXCEPT !.last = [how |-> how, best |-> 0, infos |-> {}]]
    /\ fpc' = "pooled"
    /\ UNCHANGED <<farg, sysVars>>

SearchNext ==
    \/ StartSearch
    \/ EngineWrites
    \/ ReadOutput
    \/ Abandon

SearchSpec == SearchInit /\ [][SearchNext]_vars

\* ---- the cache key and the cache map, with every setting ---------------
\* Requests with their full EngineSettings, for three transcripts; a cache of
\* CacheCapacity entries.  Requests run concurrently: up to MaxPending of them
\* have missed the cache and not yet stored their result.
CacheCapacity == 2
MaxPending == 2
FullSettings == [Depth : {10}, TimeLimit : {0}, MultiPV : {1, 3}, Threads : {1}]
FullRequests == [PGN : {"g", "h", "i"}, Settings : FullSettings, MaxMoves : {0}]

\* generateCacheKey on a models.AnalysisRequest: the PGN, Settings.Depth,
\* Settings.TimeLimit and MaxMoves are printed, nothing else.
CacheKeyOf(fr) ==
    generateCacheKey([pgn |-> fr.PGN, depth |-> fr.Settings.Depth,
                      timeLimit |-> fr.Settings.TimeLimit, maxMoves |-> fr.MaxMoves])

\* The GameAnalysis performGameAnalysis builds for a request.
FullAnalysis(fr) == [pgn |-> fr.PGN, EngineSettings |-> fr.Settings]

NoLast == [op |-> "none"]

KeyInit ==
    /\ InitSystem
    /\ fpc = "cache"
    /\ farg = <<>>
    /\ fval = [cache |-> EmptyCache, pending |-> {}, last |-> NoLast]

\* AnalyzeGame finds its key in the cache and returns the cached analysis.
CacheHit(fr) ==
    /\ fpc = "cache"
    /\ getFromCache(fval.cache, CacheKeyOf(fr)) # NoResult
    /\ fval' = [fval EXCEPT !.last =
                  [op |-> "hit", req |-> fr,
                   val |-> getFromCache(fval.cache, CacheKeyOf(fr))]]
    /\ UNCHANGED <<fpc, farg, sysVars>>

\* AnalyzeGame does not find its key and goes on to performGameAnalysis.
CacheMiss(fr) ==
    /\ fpc = "cache"
    /\ fr \notin fval.pending /\ Cardinality(fval.pending) < MaxPending
    /\ getFromCache(fval.cache, CacheKeyOf(fr)) = NoResult
    /\ fval' = [fval EXCEPT !.pending = @ \cup {fr}, !.last = [op |-> "miss", req |-> fr]]
    /\ UNCHANGED <<fpc, farg, sysVars>>

\* addToCache with the analysis of a request that had missed, and the return.
CacheStore(fr) ==
    /\ fpc = "cache"
    /\ fr \in fval.pending
    /\ \E m \in addToCacheWith(fval.cache, CacheKeyOf(fr), FullAnalysis(fr), CacheCapacity) :
         fval' = [cache |-> m, pending |-> fval.pending \ {fr},
                  last |-> [op |-> "store", req |-> fr, val |-> FullAnalysis(fr),
                            before |-> fval.cache]]
    /\ UNCHANGED <<fpc, farg, sysVars>>

KeyNext ==
    \/ \E fr \in FullRequests : CacheHit(fr)
    \/ \E fr \in FullRequests : CacheMiss(fr)
    \/ \E fr \in FullRequests : CacheStore(fr)

KeySpec == KeyInit /\ [][KeyNext]_vars

\* ---- the move loop of performGameAnalysis ------------------------------
\* A parsed game of up to MaxGame moves and a MaxMoves argument from -1 to one
\* more than that.
MaxGame == 3

LoopInit ==
    /\ InitSystem
    /\ fpc = "loop"
    /\ farg \in [len : 0..MaxGame, maxMoves : (-1)..(MaxGame + 1)]
    /\ fval = [i |-> 0, issued |-> <<>>, returned |-> <<>>]

\* for i := 0; i < movesToAnalyze: stockfishEngine.AnalyzePosition is called
\* for game.Moves[i].
IssueAnalysis ==
    /\ fpc = "loop"
    /\ fval.i < MovesLimit(farg.len, farg.maxMoves)
    /\ fval' = [fval EXCEPT !.issued = Append(@, fval.i + 1)]
    /\ fpc' = "call"
    /\ UNCHANGED <<farg, sysVars>>

\* The call returns, with a result or an error; i++ either way.
AnalysisReturns ==
    /\ fpc = "call"
    /\ \E ok \in BOOLEAN :
         fval' = [fval EXCEPT !.returned = Append(@, [move |-> fval.i + 1, ok |-> ok]),
                              !.i = @ + 1]
    /\ fpc' = "loop"
    /\ UNCHANGED <<farg, sysVars>>

\* The loop condition fails.
LoopExit ==
    /\ fpc = "loop"
    /\ ~(fval.i < MovesLimit(farg.len, farg.maxMoves))
    /\ fpc' = "looped"
    /\ UNCHANGED <<farg, fval, sysVars>>

LoopNext ==
    \/ IssueAnalysis
    \/ AnalysisReturns
    \/ LoopExit

LoopSpec == LoopInit /\ [][LoopNext]_vars

\* ---- moves sections of several lines ----------------------------------
MaxWords == 4

\* Words joined by the given separators.
RECURSIVE JoinWith(_, _)
JoinWith(ws, seps) ==
    IF ws = <<>> THEN <<>>
    ELSE IF Len(ws) = 1 THEN ws
    ELSE <<Head(ws), Head(seps)>> \o JoinWith(Tail(ws), Tail(seps))

\* The seven headers, a blank line, and up to MaxWords words (move numbers,
\* move names, a result marker) with a space or a line break between two
\* words.
LinesInit ==
    /\ InitSystem
    /\ fpc = "pgn"
    /\ \E n \in 1..MaxWords :
         \E ws \in [1..n -> MoveNumbers \cup MoveNames \cup {"*"}],
            seps \in [1..(n - 1) -> {SP, NL}] :
            farg = <<"H7", NL, NL>> \o JoinWith(ws, seps)
    /\ fval = <<>>

LinesSpec == LinesInit /\ [][ParseNext]_vars

\* ---- a parsed game through the move loop -------------------------------
\* The game is what parseMoveLine makes of a line of up to MaxWords words
\* (move numbers and move names): each move has the colour the parser gave
\* it.  Each engine-level analysis succeeds with a level or a lost
\* evaluation, or fails.
StatsInit ==
    /\ InitSystem
    /\ fpc = "score"
    /\ \E ws \in TokenSeqs(MoveNumbers \cup MoveNames, MaxWords) :
         LET parsed == parseMoveLine(JoinWords(ws)) IN
         \E f \in [1..Len(parsed) -> [ev : {0, -600}, ok : BOOLEAN]] :
            farg = [i \in 1..Len(parsed) |->
                      [ev |-> f[i].ev, color |-> parsed[i].Color, ok |-> f[i].ok]]
    /\ fval = LoopStart(farg)

StatsSpec == StatsInit /\ [][ScoreNext]_vars

\* ---- properties ---------------------------------------------------------
Holders(e) == {c \in Callers : held[c] = e}
HeldCount  == Cardinality({c \in Callers : held[c] # NoEngine})
Occurrences(q, e) == Cardinality({i \in 1..Len(q) : q[i] = e})

\* A caller that has called the engine-level AnalyzePosition on its client
\* and not yet left its last such call.
InFlight == {c \in Callers : pc[c] \in {"lock", "send", "select", "scan"}}

\* NewEnginePool has succeeded and EnginePool.Close has not been called.
PoolOpen == phase = "running" /\ cpc = "idle"

\* C1: no client is held by two callers at the same time, and a client that a
\* caller holds is not in Available (nor is any client there twice), so it
\* cannot be handed out again before its holder's ReturnEngine.
C1_ExclusiveHandOff ==
    \A e \in EngineIds :
        /\ Cardinality(Holders(e)) <= 1
        /\ Occurrences(Available, e) <= 1
        /\ Holders(e) # {} => Occurrences(Available, e) = 0

\* Two callers hold different clients, one of them a client that an earlier
\* call had (its scanner failed there), was returned and is handed out anew.
C1_Witness ==
    \E c1, c2 \in Callers :
        /\ c1 # c2 /\ held[c1] # NoEngine /\ held[c2] # NoEngine
        /\ pc[c1] = "lock" /\ movesLeft[c1] = MaxMoves /\ eof[held[c1]]

\* C2: between a successful NewEnginePool(N) and the call of Close, the
\* clients held by callers plus the clients idle in Available number N, and
\* len(Engines) = N, whatever the outcomes of the calls.
C2_PoolConservation ==
    PoolOpen =>
        /\ HeldCount + Len(Available) = MaxEngines
        /\ Len(Engines) = MaxEngines

\* A call has ended in a timeout and still holds its client, while a client
\* whose analysis failed on the stream is back in Available.
C2_Witness ==
    /\ PoolOpen
    /\ \E c \in Callers : pc[c] = "ret" /\ res[c] = "timeout"
    /\ \E e \in EngineIds : eof[e] /\ Occurrences(Available, e) = 1

\* C3: while the pool is open, a caller leaves GetEngine only by taking the
\* head of a non-empty Available, so with all N clients held nobody leaves
\* it; one step lets at most one caller leave; and a ReturnEngine adds
\* exactly one client to Available, which lets one waiter proceed.
C3_BlockingAcquire ==
    [][ (phase = "running" /\ ~chanClosed) =>
          LET Leaving   == {c \in Callers : pc[c] = "get" /\ pc'[c] # "get"}
              Returning == {c \in Callers : pc[c] = "ret" /\ pc'[c] # "ret"}
          IN  /\ (HeldCount = MaxEngines => Leaving = {})
              /\ Cardinality(Leaving) <= 1
              /\ \A c \in Leaving :
                    /\ Len(Available) > 0
                    /\ held'[c] = Head(Available)
                    /\ Len(Available') = Len(Available) - 1
              /\ (Returning # {} =>
                    /\ Leaving = {}
                    /\ Len(Available') = Len(Available) + 1) ]_vars

\* All clients are held, two callers are blocked in GetEngine and a holder is
\* about to call ReturnEngine.
C3_Witness ==
    /\ phase = "running" /\ ~chanClosed
    /\ HeldCount = MaxEngines
    /\ Cardinality({c \in Callers : pc[c] = "get"}) >= 2
    /\ \E c \in Callers : pc[c] = "ret"

\* C4: at most N engine analyses are in flight, each on a client of the pool
\* that no other in-flight analysis has.
C4_BoundedAnalyses ==
    /\ Cardinality(InFlight) <= MaxEngines
    /\ \A c \in InFlight : held[c] \in Range(Engines)
    /\ \A c1, c2 \in InFlight : c1 # c2 => held[c1] # held[c2]

\* N analyses are running inside their clients and a further request waits
\* in GetEngine.
C4_Witness ==
    /\ Cardinality({c \in Callers : pc[c] = "send"}) = MaxEngines
    /\ \A e \in EngineIds : isAnalyzing[e]
    /\ \E c \in Callers : pc[c] = "get"

\* C5: once EnginePool.Close has returned, a GetEngine call never returns a
\* nil client or a client on which Close has been executed.
C5_ClosedNeverAcquired ==
    [][ \A c \in Callers :
          (cpc = "done" /\ pc[c] = "get" /\ pc'[c] # "get") =>
              (held'[c] # NoEngine /\ ~closed[held'[c]]) ]_vars

\* C6: a client reports ready only when initialize has written uci, read
\* uciok, written the setoption commands, written isready and read readyok,
\* in that order; a client whose initialize failed is not ready.
C6_ReadyOnlyAfterHandshake ==
    \A e \in EngineIds :
        /\ isReady[e] => hslog[e] = FullHandshake
        /\ initFailed[e] => ~isReady[e]

\* One client is ready after its full handshake and the next one failed its
\* handshake after uciok.
C6_Witness ==
    \E e1, e2 \in EngineIds :
        /\ isReady[e1] /\ hslog[e1] = FullHandshake
        /\ initFailed[e2] /\ Len(hslog[e2]) > 2

\* C7: once the 10 second timer of a handshake wait has fired, the wait is at
\* its select, where the timeout case ends it: it does not depend on the
\* engine emitting a line.  A failed handshake leaves the client closed.
C7_HandshakeWaitBounded ==
    /\ (phase = "constructing" /\ ipc \in {"select", "scan"} /\ hsTimer)
          => HsSelectSeesTimeout
    /\ \A e \in EngineIds : initFailed[e] => closed[e]

\* C8: once the 30 second timer has fired or the context is cancelled, a
\* pending engine-level AnalyzePosition is at its select, where that case
\* ends it: it does not depend on the engine emitting a line.
C8_AnalysisWaitBounded ==
    \A c \in Callers :
        (pc[c] \in {"select", "scan"} /\ (ctxDone[c] \/ timerFired[c]))
            => SelectSeesDeadline(c)

\* C9: a client whose scanner failed is not in Available.
C9_BrokenClientNotPooled ==
    \A e \in EngineIds : eof[e] => Occurrences(Available, e) = 0

\* C10: in a constructed pool, a client on which Close has run reports neither
\* ready nor analyzing, and no engine-level AnalyzePosition gets past the
\* readiness check on it.
C10_ClosedIsTerminal ==
    phase = "running" =>
        /\ \A e \in EngineIds : closed[e] => ~isReady[e] /\ ~isAnalyzing[e]
        /\ \A c \in Callers : pc[c] = "send" => ~closed[held[c]]

\* The fields of client e.
ClientState(e) ==
    <<isReady[e], isAnalyzing[e], closed[e], eof[e], mu[e], hslog[e]>>

\* A caller inside the engine-level AnalyzePosition on its client, past the
\* readiness check.
Inside(e) == {c \in Callers : held[c] = e /\ pc[c] \in {"send", "select", "scan"}}

C12_NotReadyNoEffect ==
    [][ \A c \in Callers :
          (/\ pc[c] = "lock" /\ ~isReady[held[c]]
           /\ (pc'[c] # pc[c] \/ movesLeft'[c] # movesLeft[c])) =>
              /\ pc'[c] \in {"lock", "ret"}
              /\ movesLeft'[c] = movesLeft[c] - 1
              /\ pc'[c] = "ret" => res'[c] = "notready"
              /\ ~isAnalyzing'[held[c]]
              /\ ClientState(held[c])' = ClientState(held[c]) ]_vars

\* A call on a fresh client (not ready, not closed) has returned the "not
\* ready" error.
C12_Witness ==
    \E c \in Callers :
        /\ pc[c] = "ret" /\ res[c] = "notready"
        /\ ~isReady[held[c]] /\ ~closed[held[c]] /\ ~isAnalyzing[held[c]]

\* C13: a client is analyzing exactly while a call is inside it past the
\* readiness check; there is at most one such call, it holds e.mu and the
\* client is ready; a client that completed its handshake stays ready.
C13_AnalyzingFlag ==
    \A e \in EngineIds :
        /\ isAnalyzing[e] <=> Inside(e) # {}
        /\ Cardinality(Inside(e)) <= 1
        /\ \A c \in Inside(e) : mu[e] = c /\ isReady[e]
        /\ hslog[e] = FullHandshake => isReady[e]

\* Two goroutines share a ready client: one has returned from a call that
\* timed out, the other is inside its own call on the same client.
C13_Witness ==
    \E c1, c2 \in Callers :
        /\ c1 # c2 /\ held[c1] # NoEngine /\ held[c1] = held[c2]
        /\ isReady[held[c1]]
        /\ pc[c1] = "ret" /\ res[c1] = "timeout"
        /\ pc[c2] = "scan" /\ isAnalyzing[held[c2]]

\* The request of goroutine c has come back from performGameAnalysis.
Analysed(c) == spc[c] \in {"add", "adding", "stored"}

\* C14: a game request has performed one GetEngine for each engine-level
\* analysis it has made.
C14_AcquirePerMove ==
    \A c \in Callers : Analysed(c) => acquired[c] = Len(outcomes[c])

\* The MoveNumbers i of the calls that succeeded, in ascending order.
RECURSIVE SuccessfulMoves(_, _)
SuccessfulMoves(oc, i) ==
    IF i > Len(oc) THEN <<>>
    ELSE (IF oc[i] THEN <<i>> ELSE <<>>) \o SuccessfulMoves(oc, i + 1)

\* The GetFromCacheRead step of goroutine c.
LookupStep(c) == spc[c] = "reading" /\ spc'[c] # "reading"

\* C15: a lookup whose key is in the cache returns the stored GameAnalysis
\* with no error, and that request performs no GetEngine, makes no
\* engine-level call and changes neither the pool nor any client.
C15_CacheHit ==
    [][ \A c \in Callers :
          /\ (LookupStep(c) /\ generateCacheKey(req[c]) \in DOMAIN cache) =>
                /\ spc'[c] = "hit"
                /\ out'[c] = Return(cache[generateCacheKey(req[c])], "nil")
                /\ out'[c].val.pgn = req[c].pgn
                /\ UNCHANGED <<poolVars, engVars, callerVars, cache>>
          /\ spc'[c] = "hit" =>
                /\ acquired'[c] = 0 /\ outcomes'[c] = <<>>
                /\ pc'[c] = "idle" /\ held'[c] = NoEngine ]_vars

\* A request is served from the cache with an analysis that has moves, while
\* the other goroutine holds a client.
C15_Witness ==
    \E c1, c2 \in Callers :
        /\ spc[c1] = "hit" /\ Len(out[c1].val.moves) > 0
        /\ held[c2] # NoEngine

\* C16: the cache never holds more than maxCacheSize entries.
C16_CacheBounded == Cardinality(DOMAIN cache) <= maxCacheSize

\* Two requests with different keys have both stored their result, and the
\* cache is full.
C16_Witness ==
    \E c1, c2 \in Callers :
        /\ spc[c1] = "stored" /\ spc[c2] = "stored"
        /\ generateCacheKey(req[c1]) # generateCacheKey(req[c2])
        /\ Cardinality(DOMAIN cache) = maxCacheSize

\* C17: while a goroutine is inside a write of the cache (addToCache,
\* ClearCache) no goroutine is reading it, neither a lookup nor the
\* occupancy count of GetEngineStatus.
C17_CacheLockDiscipline ==
    rwWriter # 0 => (rwReaders = {} /\ stpc # "reading")

\* C18: performGameAnalysis makes an engine-level call for every one of the
\* movesToAnalyze moves whatever the earlier calls returned, its move list is
\* the successful moves in game order, and AnalyzeGame returns that list
\* without error.
C18_FailedMovesOmitted ==
    \A c \in Callers :
        /\ spc[c] = "analyse" => analysis[c] = SuccessfulMoves(outcomes[c], 1)
        /\ Analysed(c) =>
              /\ Len(outcomes[c]) = movesToAnalyze(req[c])
              /\ analysis[c] = SuccessfulMoves(outcomes[c], 1)
        /\ spc[c] = "stored" =>
              out[c] = Return(GameAnalysis(req[c], SuccessfulMoves(outcomes[c], 1)), "nil")

\* A game whose first move failed and whose last move succeeded has been
\* returned.
C18_Witness ==
    \E c \in Callers :
        /\ spc[c] = "stored" /\ Len(outcomes[c]) = MaxMoves
        /\ ~outcomes[c][1] /\ outcomes[c][MaxMoves]
        /\ out[c].val.moves = <<MaxMoves>>

\* The step with which goroutine c leaves ValidatePGN.
ValidateStep(c) == spc[c] = "validate" /\ spc'[c] # "validate"

\* C19: a request whose transcript is rejected returns a ValidationError; the
\* step changes neither the cache, nor the pool, nor a client, and the
\* request has performed no GetEngine and no engine-level call.
C19_InvalidNoEffect ==
    [][ \A c \in Callers :
          /\ (ValidateStep(c) /\ req[c].pgn = "bad") =>
                /\ spc'[c] = "invalid"
                /\ out'[c] = Return(NoResult, "ValidationError")
                /\ UNCHANGED <<poolVars, engVars, callerVars, cache>>
          /\ spc'[c] = "invalid" =>
                /\ acquired'[c] = 0 /\ outcomes'[c] = <<>>
                /\ pc'[c] = "idle" /\ held'[c] = NoEngine ]_vars

\* A rejected request has returned while the cache holds an entry and the
\* other goroutine holds a client.
C19_Witness ==
    \E c1, c2 \in Callers :
        /\ spc[c1] = "invalid" /\ out[c1].err = "ValidationError"
        /\ DOMAIN cache # {} /\ held[c2] # NoEngine

\* The step with which the position request of goroutine c returns.
PositionReturnStep(c) == spc[c] = "position" /\ spc'[c] = "returned"

\* C20: a position request returns after one GetEngine and one engine-level
\* call, its return puts the client it held back into Available whatever the
\* outcome, and a position request neither holds the cache lock nor changes
\* the cache.
C20_PositionFrame ==
    [][ /\ \A c \in Callers :
             /\ PositionReturnStep(c) =>
                   /\ acquired[c] = 1 /\ Len(outcomes[c]) = 1
                   /\ held[c] # NoEngine /\ held'[c] = NoEngine
                   /\ Available' = Append(Available, held[c])
             /\ spc[c] \in {"position", "returned"} =>
                   c \notin rwReaders /\ rwWriter # c
        /\ cache' # cache => \E c \in Callers : spc[c] = "adding" ]_vars

\* A position request whose analysis failed on the stream has returned and
\* all clients are idle in Available.
C20_Witness ==
    \E c \in Callers :
        /\ spc[c] = "returned" /\ out[c].err = "scanerr"
        /\ Len(Available) = MaxEngines

\* C21: when NewEnginePool has failed at client cur, the clients 1..cur-1 it
\* had appended and the failing client, if its process was launched, are
\* closed; no pool was returned, so no request runs on it.
C21_CtorFailureCleanup ==
    phase = "failed" =>
        /\ Engines = [i \in 1..(cur - 1) |-> i]
        /\ \A e \in EngineIds : (e < cur \/ initFailed[e]) => closed[e]
        /\ \A c \in Callers : pc[c] = "idle" /\ held[c] = NoEngine

\* Construction failed in the handshake of the last client, after the
\* earlier ones had become ready.
C21_Witness ==
    /\ phase = "failed" /\ cur = MaxEngines /\ initFailed[cur]
    /\ \A e \in 1..(cur - 1) : isReady[e] /\ closed[e]

\* The search command the settings ask for.
ExpectedGo(st) ==
    (IF st.TimeLimit <= 0 THEN <<"go", "depth", st.Depth>>
                          ELSE <<"go", "movetime", st.TimeLimit>>)
    \o (IF st.MultiPV > 1 THEN <<"multipv", st.MultiPV>> ELSE <<>>)

\* C22: the call sends "position fen" first and then the search command the
\* settings ask for: depth when the time limit is not positive, movetime
\* otherwise, with multipv appended exactly when MultiPV > 1.
C22_SearchCommand ==
    /\ fpc = "go" => fval.sent = <<positionCmd("fen")>>
    /\ fpc \in {"read", "returned"} =>
          fval.sent = <<positionCmd("fen"), ExpectedGo(farg.settings)>>

\* A call with a time limit and two principal variations has returned.
C22_Witness ==
    /\ fpc = "returned"
    /\ farg.settings.TimeLimit > 0 /\ farg.settings.MultiPV > 1
    /\ fval.sent[2] = <<"go", "movetime", 1000, "multipv", 2>>

\* The call has returned a result.
ReturnedOk == fpc = "returned" /\ fval.err = "nil"

\* The info lines the call has read when it returns a result.
InfoRead == SubSeq(farg.lines, 1, Len(farg.lines) - 1)

\* The score of a line in hundredths of a pawn: cp c is c, mate m is
\* 1000 - m pawns for m > 0 and -1000 - m pawns for m < 0.
ConvertedScore(sc) ==
    IF sc[1] = "cp" THEN sc[2]
    ELSE IF sc[2] > 0 THEN 100 * (1000 - sc[2]) ELSE 100 * (-1000 - sc[2])

\* The converted score of the last line of ls that carries a score, ev when
\* there is none.
RECURSIVE LastScore(_, _)
LastScore(ls, ev) ==
    IF ls = <<>> THEN ev
    ELSE LastScore(Tail(ls), IF Head(ls).score[1] = "none" THEN ev
                             ELSE ConvertedScore(Head(ls).score))

\* C23: the evaluation of a returned result is the converted score of the
\* last info line that carried a score.
C23_EvaluationOfLastScore ==
    ReturnedOk => fval.result.Evaluation = LastScore(InfoRead, 0)

\* The pv of the last line of ls that has a non-empty one, pv when none has.
RECURSIVE LastPV(_, _)
LastPV(ls, pv) ==
    IF ls = <<>> THEN pv
    ELSE LastPV(Tail(ls), IF Head(ls).pv = <<>> THEN pv ELSE Head(ls).pv)

\* C24: the principal variation of a returned result is that of the last
\* info line with a non-empty pv.
C24_LastPVWins ==
    ReturnedOk => fval.result.PrincipalVariation = LastPV(InfoRead, <<>>)

\* Two info lines with different pvs were read; the result has the second.
C24_Witness ==
    /\ ReturnedOk /\ Len(InfoRead) = 2
    /\ InfoRead[1].pv # <<>> /\ InfoRead[2].pv # <<>>
    /\ InfoRead[1].pv # InfoRead[2].pv
    /\ fval.result.PrincipalVariation = InfoRead[2].pv

\* C25: a returned result has a non-empty best move.
C25_BestMovePresent ==
    ReturnedOk => fval.result.BestMove # ""

\* The MoveAnalysis records produced so far.
Produced == {fval.moves[i] : i \in 1..Len(fval.moves)}

\* C26: the accuracy of a move is 100 - 10e for e >= 0 and 100 + 15e for
\* e < 0 (e in pawns); blunder iff accuracy < 50, mistake iff in [50, 80),
\* inaccuracy iff in [80, 90); the best-move total counts exactly the moves
\* with accuracy >= 95.  So e = 0 gives 100 unflagged, e = -6 gives 10 and
\* blunder, e = 0.2 gives 98.
C26_AccuracyClassification ==
    /\ fpc \in {"score", "scored"} =>
          \A m \in Produced :
              /\ m.Evaluation >= 0 => 5 * m.Accuracy = 10000 - 10 * m.Evaluation
              /\ m.Evaluation < 0 => 5 * m.Accuracy = 10000 + 15 * m.Evaluation
              /\ m.Blunder <=> m.Accuracy < Pct(50)
              /\ m.Mistake <=> (Pct(50) <= m.Accuracy /\ m.Accuracy < Pct(80))
              /\ m.Inaccuracy <=> (Pct(80) <= m.Accuracy /\ m.Accuracy < Pct(90))
              /\ m.Evaluation = 0 =>
                    m.Accuracy = Pct(100) /\ ~m.Blunder /\ ~m.Mistake /\ ~m.Inaccuracy
              /\ m.Evaluation = -600 => m.Accuracy = Pct(10) /\ m.Blunder
              /\ m.Evaluation = 20 => m.Accuracy = Pct(98)
    /\ (fpc = "scored" /\ Len(fval.moves) > 0) =>
          fval.totals["best"] =
              Cardinality({i \in 1..Len(fval.moves) : fval.moves[i].Accuracy >= Pct(95)})

\* A game with a move of evaluation -6.0 and a move of evaluation 0.2 has its
\* totals: one blunder, one best move.
C26_Witness ==
    /\ fpc = "scored" /\ Len(fval.moves) = 2
    /\ fval.moves[1].Evaluation = -600 /\ fval.moves[2].Evaluation = 20
    /\ fval.totals["blunder"] = 1 /\ fval.totals["best"] = 1

\* C27: no MoveAnalysis has two of the flags, and the four totals sum to at
\* most the number of analysed moves.
C27_FlagsExclusive ==
    fpc \in {"score", "scored"} =>
        /\ \A m \in Produced :
              /\ ~(m.Blunder /\ m.Mistake)
              /\ ~(m.Blunder /\ m.Inaccuracy)
              /\ ~(m.Mistake /\ m.Inaccuracy)
        /\ fval.totals["blunder"] + fval.totals["mistake"]
             + fval.totals["inaccuracy"] + fval.totals["best"] <= Len(fval.moves)

\* A game of a mistake and a move that is neither flagged nor a best move
\* (accuracy in [90, 95)): the totals sum to less than the moves.
C27_Witness ==
    /\ fpc = "scored" /\ Len(fval.moves) = 2
    /\ fval.moves[1].Mistake
    /\ QualityBucket(fval.moves[2]) = "none"
    /\ fval.totals["mistake"] = 1 /\ fval.totals["best"] = 0

\* Positions where a blank line (two newlines in a row) starts, from a on.
BlankLinesFrom(t, a) == {i \in a..(Len(t) - 1) : t[i] = NL /\ t[i + 1] = NL}
Least(S) == CHOOSE i \in S : \A j \in S : i <= j
Blank(t) == \A i \in 1..Len(t) : t[i] \in {NL, SP}

\* The text before the first blank line, and the text between the first blank
\* line and the next one (the moves section).
FirstBlock(t) ==
    IF BlankLinesFrom(t, 1) = {} THEN t
    ELSE SubSeq(t, 1, Least(BlankLinesFrom(t, 1)) - 1)
MovesBlock(t) ==
    LET a == Least(BlankLinesFrom(t, 1)) + 2 IN
    SubSeq(t, a, IF BlankLinesFrom(t, a) = {} THEN Len(t)
                 ELSE Least(BlankLinesFrom(t, a)) - 1)

\* A block has header h when one of its lines holds a tag spelled h in any case.
HasHeader(block, h) ==
    \E i \in 1..Len(block) : Tags(block[i]) \cap {h, Titles[h], Uppers[h]} # {}

\* C28: ValidatePGN fails when the transcript is only white space, when its
\* first block lacks one of the seven headers (in any case), or when it has
\* no moves section after a blank line or an empty one; it succeeds when all
\* seven headers and a non-empty moves section are there.
C28_ValidatePGN ==
    fpc = "validated" =>
        (fval.err = "" <=>
            /\ ~Blank(farg)
            /\ \A h \in requiredHeaders : HasHeader(FirstBlock(farg), h)
            /\ BlankLinesFrom(farg, 1) # {}
            /\ ~Blank(MovesBlock(farg)))

\* Seven headers written in capitals, a blank line and a move: accepted.
C28_Witness ==
    /\ fpc = "validated"
    /\ farg = <<"H7uc", NL, NL, "e4">>
    /\ fval.err = ""

\* The line "1. w1 b1 2. w2 b2 ... k. wk bk R" for the pairs ws.
RECURSIVE PairWords(_, _)
PairWords(ws, j) ==
    IF j > Len(ws) THEN <<>>
    ELSE <<IF j = 1 THEN "1." ELSE "2.", ws[j][1], ws[j][2]>> \o PairWords(ws, j + 1)
WellFormedLine(ws, R) == JoinWords(PairWords(ws, 1) \o <<R>>)

\* C29: a transcript whose moves section is one line
\* "1. w1 b1 2. w2 b2 ... k. wk bk R" parses into 2k moves in order, wj with
\* number j and colour white, bj with number j and colour black, and the
\* recorded result is R.
C29_WellFormedLine ==
    fpc = "parsed" =>
      \A k \in 1..MaxPairs : \A ws \in [1..k -> MoveNames \X MoveNames] :
        \A R \in ResultMarkers :
          (/\ Len(farg) = 6 * k + 4
           /\ farg[Len(farg)] = R
           /\ farg = <<"H7", NL, NL>> \o WellFormedLine(ws, R)) =>
            /\ fval.err = ""
            /\ Len(fval.moves) = 2 * k
            /\ \A j \in 1..k :
                  /\ fval.moves[2 * j - 1] =
                        [MoveNumber |-> j, Move |-> ws[j][1], Color |-> "white"]
                  /\ fval.moves[2 * j] =
                        [MoveNumber |-> j, Move |-> ws[j][2], Color |-> "black"]
            /\ fval.result = R

\* "1. e4 e5 2. e5 e4 1/2-1/2" after seven headers has been parsed into four
\* moves and a draw.
C29_Witness ==
    /\ fpc = "parsed"
    /\ farg = <<"H7", NL, NL>>
                \o JoinWords(<<"1.", "e4", "e5", "2.", "e5", "e4", "1/2-1/2">>)
    /\ Len(fval.moves) = 4
    /\ fval.moves[4] = [MoveNumber |-> 2, Move |-> "e4", Color |-> "black"]
    /\ fval.result = "1/2-1/2"

\* C30: when every caller that obtains a client returns it, a caller
\* blocked in GetEngine obtains a client in the end.
C30_NoStarvation ==
    \A c \in LiveCallers : (pc[c] = "get") ~> (held[c] # NoEngine)

\* Every client is held and a caller is blocked in GetEngine.
C30_Witness ==
    /\ HeldCount = MaxEngines
    /\ Available = <<>>
    /\ \E c \in LiveCallers : pc[c] = "get" /\ held[c] = NoEngine

\* C31: the call that follows a call ended by timeout or cancellation
\* returns the best move and the info values of its own search, never lines
\* of the abandoned one.
C31_NoStaleOutput ==
    (fpc = "pooled" /\ fval.last.how = "ok"
        /\ fval.prev \in {"timeout", "cancelled"}) =>
            /\ fval.last.best = fval.search
            /\ fval.last.infos \subseteq {fval.search}

\* C32: Close is safe under concurrency: the ReturnEngine of a caller that
\* held a client while Close ran completes without failure, and GetEngine
\* never hands a caller a missing (nil) client to operate on.
C32_CloseSafe ==
    \A c \in Callers : pc[c] # "panicked"

\* The request a cache key was generated from.
RequestOf(k) == [pgn |-> k[1], depth |-> k[2], timeLimit |-> k[3], maxMoves |-> k[4]]

\* C33: every GameAnalysis in the cache has a MoveAnalysis for each of the
\* moves its request asked for (the first min(limit, game length) moves); a
\* result with moves left out is not stored.
C33_CachedComplete ==
    \A k \in DOMAIN cache :
        cache[k].moves = [i \in 1..movesToAnalyze(RequestOf(k)) |-> i]

\* C34: the GameAnalysis a request gets back records the settings of that
\* request: a cached result goes only to a request with the same transcript
\* and the same settings.
C34_SettingsOfRequest ==
    (fpc = "cache" /\ fval.last.op \in {"hit", "store"}) =>
        /\ fval.last.val.pgn = fval.last.req.PGN
        /\ fval.last.val.EngineSettings = fval.last.req.Settings

\* The entries a store has removed.
Removed == (DOMAIN fval.last.before) \ (DOMAIN fval.cache)

\* C39: addToCache removes an entry only when its key is new and the cache
\* is full, and then exactly one; a store under a key that is present leaves
\* every other entry in place.
C39_EvictOnlyWhenNeeded ==
    (fpc = "cache" /\ fval.last.op = "store") =>
        LET k == CacheKeyOf(fval.last.req)
            before == fval.last.before
        IN  /\ Removed # {} =>
                  /\ k \notin DOMAIN before
                  /\ Cardinality(DOMAIN before) >= CacheCapacity
                  /\ Cardinality(Removed) = 1
            /\ k \in DOMAIN before =>
                  \A x \in (DOMAIN before) \ {k} :
                      x \in DOMAIN fval.cache /\ fval.cache[x] = before[x]

\* The number of moves the request asks for.
Wanted ==
    IF farg.maxMoves > 0
      THEN (IF farg.maxMoves < farg.len THEN farg.maxMoves ELSE farg.len)
      ELSE farg.len

\* C35: the analysis requests go out for the first min(MaxMoves, parsed
\* moves) moves when MaxMoves > 0 and for all parsed moves otherwise, in game
\* order, each one only after the one before has returned.
C35_MovesInOrder ==
    fpc \in {"loop", "call", "looped"} =>
        /\ \A j \in 1..Len(fval.issued) : fval.issued[j] = j
        /\ Len(fval.issued) <= Wanted
        /\ \A j \in 1..Len(fval.returned) : fval.returned[j].move = j
        /\ Len(fval.issued) = Len(fval.returned) + (IF fpc = "call" THEN 1 ELSE 0)
        /\ fpc = "looped" => Len(fval.issued) = Wanted

\* A game of MaxGame moves with MaxMoves = MaxGame - 1: the loop has ended
\* after MaxGame - 1 requests, the first of which failed.
C35_Witness ==
    /\ fpc = "looped"
    /\ farg.len = MaxGame /\ farg.maxMoves = MaxGame - 1
    /\ Len(fval.issued) = MaxGame - 1
    /\ ~fval.returned[1].ok

\* The words of the moves section of the transcript, comments stripped.
SectionWords ==
    SelectSeq(SubSeq(farg, 4, Len(farg)), LAMBDA t : t \notin {NL, SP, Comment})

\* The words that are moves, each with the most recent move number before it.
RECURSIVE NumberedMoves(_, _)
NumberedMoves(ws, number) ==
    IF ws = <<>> THEN <<>>
    ELSE IF Head(ws) \in MoveNumbers
         THEN NumberedMoves(Tail(ws), IF Head(ws) = "1." THEN 1 ELSE 2)
    ELSE IF Head(ws) \in ResultMarkers THEN NumberedMoves(Tail(ws), number)
    ELSE <<[MoveNumber |-> number, Move |-> Head(ws)]>> \o NumberedMoves(Tail(ws), number)

\* C36: for a moves section that begins with a move number, ParsePGN yields
\* one move for every word that is neither a move number nor a result
\* marker, each with the most recent move number seen, wherever the line
\* breaks fall.
C36_LineBreaksIrrelevant ==
    (fpc = "parsed" /\ Len(farg) >= 4 /\ farg[1] = "H7" /\ farg[4] \in MoveNumbers) =>
        [i \in 1..Len(fval.moves) |->
            [MoveNumber |-> fval.moves[i].MoveNumber, Move |-> fval.moves[i].Move]]
          = NumberedMoves(SectionWords, 0)

\* C37: when at least one move was analysed, WhiteAccuracy and
\* BlackAccuracy are means over a side move count that is not zero.
C37_MeansDefined ==
    (fpc = "scored" /\ Len(fval.moves) >= 1) =>
        fval.WhiteAccuracy.defined /\ fval.BlackAccuracy.defined

\* The analysed moves to which the parser gave colour col.
AnalysedOfColor(col) ==
    {i \in 1..Len(fval.moves) : farg[fval.moves[i].MoveNumber].color = col}

\* C38: the side calculateGameStatistics takes a move for (white iff its
\* MoveNumber is odd) is the colour the parser gave the move, which is the
\* side its quality flag is counted for.
C38_SameSide ==
    /\ fpc \in {"score", "scored"} =>
          \A m \in Produced :
              (m.MoveNumber % 2 = 1) <=> (farg[m.MoveNumber].color = "white")
    /\ (fpc = "scored" /\ Len(fval.moves) >= 1) =>
          /\ fval.WhiteAccuracy.n = Cardinality(AnalysedOfColor("white"))
          /\ fval.BlackAccuracy.n = Cardinality(AnalysedOfColor("black"))

\* The callers blocked or arriving in GetEngine.
Waiting == {c \in Callers : pc[c] = "get"}

\* C40: no request waits in GetEngine while it holds a client, so the
\* callers never reach a state where every client is held and every holder
\* waits for another client.
C40_NoHoldAndWait ==
    /\ \A c \in Waiting : held[c] = NoEngine
    /\ ~(/\ HeldCount = MaxEngines
         /\ \A c \in Callers : held[c] # NoEngine => c \in Waiting)

\* Every client is held, every other caller waits in GetEngine, and the
\* holders are on their way to ReturnEngine.
C40_Witness ==
    /\ HeldCount = MaxEngines
    /\ Cardinality(Waiting) = NumCallers - MaxEngines
    /\ \A c \in Callers : held[c] # NoEngine => pc[c] \in {"lock", "send", "ret"}
    /\ \E c \in Callers : pc[c] = "ret"

====
